---- MODULE Spec2Model ----
(***************************************************************************)
(* The rclone remote-control front end: the lib/http2 server builder and   *)
(* its authentication middleware, and the rcserver2 command dispatcher     *)
(* mounted on the server's router.                                         *)
(*                                                                         *)
(* Strings the code inspects character by character (URL paths) are        *)
(* sequences of one-character strings; formatted messages are sequences    *)
(* of tokens, so that fmt's %q and strings.Contains are computed.          *)
(* A Go nil (pointer, map, interface) is the empty sequence <<>>, a        *)
(* non-nil value v is <<v>>.                                               *)
(***************************************************************************)
EXTENDS Integers, Sequences, FiniteSets, TLC

VARIABLES
    pc,         \* "new" before NewServer, "failed" when NewServer returned an
                \* error, "ready" to serve the next request, "served" when a
                \* response was written
    auth,       \* server.auth: <<>> (nil) or <<AuthConfig>>
    opt,        \* RCServer.opt (rc.Options)
    arg,        \* the options NewServer was called with: <<>> or <<Server>>
    cfg,        \* the HTTPConfig server.cfg points to: the caller's, or
                \* the package default
    tlsConfig,  \* server.tlsConfig: <<>> (nil) or <<tls.Config>>
    srvErr,     \* the error NewServer returned, "" for nil
    instances,  \* server.instances, in the order of the addresses
    listeners,  \* the addresses the process holds an open OS listener on
    sockets,    \* the Unix socket files on disk
    mux,        \* the middlewares installed on the router, in order
    once,       \* onlyOnceWarningAllowOrigin: mutex holder and done flag
    warnings,   \* how often the allow-origin warning was logged
    ctor,       \* the MiddlewareCORS calls in progress, one per goroutine
    built,      \* the allow-origins of the CORS middlewares constructed
    jobID,      \* the job engine's id counter
    jobids,     \* the x-rclone-jobid values the client received, in order
    conn,       \* the instance the request arrived on, 0 for none
    req,        \* the last request served: <<>> or <<request>>
    rctx,       \* the context of that request after the middleware chain
    in,         \* the input mapping handlePost built: <<>> or <<Params>>
    job,        \* the call submitted to jobs.NewJob and the handle it
                \* returned: <<>> or <<[path, in, handle]>>
    hres,       \* what the wrapped handler wrote: <<>> or <<[status, body]>>
    whdr,       \* the CORS and job id headers the client receives
    wlog,       \* the calls on the ResponseWriter while the wrapped
                \* handler ran, in order
    resp,       \* the response the client receives
    wg,         \* server.wg: the counter of the WaitGroup
    serving,    \* Serve was called
    loops,      \* the serve goroutine of each instance: "none", "go" when
                \* Serve started it, "serving" inside http.Server.Serve,
                \* "done" when it returned
    stopped,    \* per instance: httpServer.Shutdown was called on it
    sd,         \* the Shutdown call: its position and loop index
    waiter,     \* the Wait call: "idle", "waiting" or "returned"
    urls,       \* what URLs() returned last: <<>> (nil) or the URLs
    file,       \* the DEFAULT section of the config file: flag -> value
    flagset,    \* the registered flags: name -> [Changed, Value]
    target      \* the options structure the overlay pass writes

vars == <<pc, auth, opt, arg, cfg, tlsConfig, srvErr, instances, listeners,
          sockets, mux, once, warnings, ctor, built, jobID, jobids, conn, req,
          rctx, in, job, hres, whdr, wlog, resp, wg, serving, loops, stopped,
          sd, waiter, urls, file, flagset, target>>

\* The variables of the server and of the process around it
srv == <<auth, opt, arg, cfg, tlsConfig, srvErr, instances, listeners, sockets,
         mux>>

\* The variables of one request and its response
rq == <<conn, req, rctx, in, job, hres, whdr, wlog, resp>>

\* The variables of the CORS warning
cw == <<once, warnings, ctor, built>>

\* The variables of Serve, Shutdown, Wait and URLs
life == <<wg, serving, loops, stopped, sd, waiter, urls>>

\* The variables of the config file overlay
ov == <<file, flagset, target>>

----------------------------------------------------------------------------
(* Bounds of the model *)

MaxPathLen == 2     \* characters of a URL path after its first slash
MaxQuery   == 1     \* key=value pairs of a URL query
MaxBody    == 2     \* key=value pairs (members) of a form or JSON body
MaxJobs    == 2     \* job handles the job engine creates in one run
MaxCORS    == 3     \* MiddlewareCORS constructions of one process
JobsBefore == 8     \* jobs the process ran before the server was built

PathChars  == {"a", "b", "/", "\""}
Keys       == {"k", "c"}
ReservedKeys == {"_request", "_response"}
Vals       == {"1", "2"}
Realms     == {"test", "rclone"}
Methods    == {"POST", "OPTIONS", "DELETE"}
ContentTypes == {"", "application/x-www-form-urlencoded", "application/json"}
Origins    == {"", "*", "http://test.rclone.org"}
Goroutines == {1, 2}

----------------------------------------------------------------------------
(* net/http status codes used by the code *)

StatusOK                  == 200
StatusBadRequest          == 400
StatusUnauthorized        == 401
StatusForbidden           == 403
StatusNotFound            == 404
StatusMethodNotAllowed    == 405
StatusInternalServerError == 500

----------------------------------------------------------------------------
(* Sequences *)

SeqsUpTo(S, n) == UNION {[1..m -> S] : m \in 0..n}

Last(s) == s[Len(s)]

\* strings.Contains on token sequences: needle is a contiguous part of hay
Contains(hay, needle) ==
    \E i \in 0..(Len(hay) - Len(needle)) :
        \A j \in 1..Len(needle) : hay[i + j] = needle[j]

\* strings.TrimLeft(s, "/")
RECURSIVE TrimLeft(_)
TrimLeft(s) ==
    IF s # <<>> /\ Head(s) = "/" THEN TrimLeft(Tail(s)) ELSE s

\* strconv.Quote, the %q verb: a double-quoted Go literal in which the
\* double quote and the backslash are escaped by a backslash
RECURSIVE Escape(_)
Escape(s) ==
    IF s = <<>> THEN <<>>
    ELSE (IF Head(s) \in {"\"", "\\"} THEN <<"\\", Head(s)>> ELSE <<Head(s)>>)
         \o Escape(Tail(s))

Quote(s) == <<"\"">> \o Escape(s) \o <<"\"">>

----------------------------------------------------------------------------
(* Configuration *)

\* auth.Options / AuthConfig: CustomAuthFn is "" for a nil function
AuthConfig(fn, htpasswd, user, realm) ==
    [CustomAuthFn |-> fn, HtPasswd |-> htpasswd, BasicUser |-> user,
     BasicPass |-> user, Realm |-> realm, Salt |-> "dlPL2MqE"]

AuthConfigs ==
    {AuthConfig(fn, ht, user, realm) :
        fn \in {"", "customAuthFn"}, ht \in {"", "./testdata/.htpasswd"},
        user \in {"", "test"}, realm \in Realms}

\* rc.Options, the fields the dispatcher reads
Options ==
    [NoAuth : BOOLEAN, AccessControlAllowOrigin : Origins, Serve : BOOLEAN,
     EnableMetrics : BOOLEAN, Files : {"", "/srv"}, WebUI : BOOLEAN]

Option(noAuth, allowOrigin) ==
    [NoAuth |-> noAuth, AccessControlAllowOrigin |-> allowOrigin,
     Serve |-> FALSE, EnableMetrics |-> FALSE, Files |-> "", WebUI |-> FALSE]

\* The options of the servers that answer GET and HEAD
GetOptions ==
    {o \in Options : ~o.NoAuth /\ o.AccessControlAllowOrigin = ""}

\* rcserver2.New, its file handling: the web GUI without --rc-files turns
\* remote serving on
New(o) == IF o.Files = "" /\ o.WebUI THEN [o EXCEPT !.Serve = TRUE] ELSE o

\* RCServer.files as New sets it: the file server of --rc-files or of the
\* web GUI, <<>> for nil
Files(o) ==
    IF o.Files # "" THEN <<o.Files>>
    ELSE IF o.WebUI THEN <<"webgui/current/build">>
    ELSE <<>>

----------------------------------------------------------------------------
(* Listen addresses, TLS material and listener instances *)

\* An address is the sequence of its parts: an optional unix:// or tls://
\* prefix and the host:port or the path
AbsPaths == {"/tmp/rclone.sock"}

AddrA    == <<"127.0.0.1:8080">>
AddrB    == <<"127.0.0.1:8081">>
AddrUnix == <<"unix://", "/tmp/rclone.sock">>
AddrPath == <<"/tmp/rclone.sock">>
AddrTLS  == <<"tls://", "127.0.0.1:8443">>

\* HTTPConfig.ListenAddr, the lists the servers are built with
ListenAddrs ==
    {<<AddrA, AddrUnix>>, <<AddrA, AddrB, AddrUnix>>, <<AddrPath>>,
     <<AddrA, AddrA>>}

\* HTTPConfig: a path is "" when unset, a PEM body <<>> when empty; BaseURL
\* is the sequence of its characters
HTTPConfig(addrs, base, cert, key, certBody, keyBody, ca, minVersion) ==
    [ListenAddr |-> addrs, BaseURL |-> base, TLSCert |-> cert, TLSKey |-> key,
     TLSCertBody |-> certBody, TLSKeyBody |-> keyBody, ClientCA |-> ca,
     MinTLSVersion |-> minVersion]

DefaultHTTPCfg == HTTPConfig(<<AddrA>>, <<>>, "", "", <<>>, <<>>, "", "tls1.0")

\* strings.Trim(s, "/") on a sequence of characters
RECURSIVE TrimRight(_)
TrimRight(s) ==
    IF s # <<>> /\ s[Len(s)] = "/" THEN TrimRight(SubSeq(s, 1, Len(s) - 1))
    ELSE s

Trim(s) == TrimRight(TrimLeft(s))

\* A variant of the normalisation that keeps a trailing slash
BaseURLKeepsSlash(base) ==
    IF TrimLeft(base) = <<>> THEN <<>> ELSE <<"/">> \o TrimLeft(base)

\* NewServer's "Ignore passing / for BaseURL": the base path the server
\* keeps in s.cfg.BaseURL
BaseURL(base) ==
    IF Trim(base) = <<>> THEN <<>> ELSE <<"/">> \o Trim(base)

\* The PEM files and bodies of the environment: tls.LoadX509KeyPair and
\* tls.X509KeyPair succeed on a certificate and a key that match
LoadX509KeyPair(cert, key) ==
    [err  |-> IF cert = "cert.pem" /\ key = "key.pem" THEN ""
              ELSE "tls: failed to load key pair",
     cert |-> [Certificate |-> cert, PrivateKey |-> key]]

X509KeyPair(certBody, keyBody) ==
    [err  |-> IF certBody = <<"CERT">> /\ keyBody = <<"KEY">> THEN ""
              ELSE "tls: failed to parse key pair",
     cert |-> [Certificate |-> certBody, PrivateKey |-> keyBody]]

\* The values of --min-tls-version initTLS accepts
MinTLSVersions == {"tls1.0", "tls1.1", "tls1.2", "tls1.3"}

\* tls.Config, the fields initTLS sets; ClientCAs is <<>> for no pool
TLSConfig(minVersion, cert, clientCAs, clientAuth) ==
    [MinVersion |-> minVersion, Certificates |-> <<cert>>,
     ClientCAs |-> clientCAs, ClientAuth |-> clientAuth]

\* os.ReadFile and AppendCertsFromPEM on the client CA file
ClientCAPool(ca) ==
    [err |-> IF ca = "ca.pem" THEN ""
             ELSE IF ca = "empty.pem"
             THEN "unable to parse client certificate authority"
             ELSE "open: no such file or directory",
     pool |-> <<ca>>]

\* initTLS's first test: no key is configured, TLS is not used
NoTLSKey(c) == c.TLSKey = "" /\ c.TLSKeyBody = <<>>

\* initTLS: the error it returns ("" for nil) and s.tlsConfig
initTLS(c) ==
    LET Fail(e) == [err |-> e, tlsConfig |-> <<>>]
        pair == IF c.TLSCertBody # <<>>
                THEN X509KeyPair(c.TLSCertBody, c.TLSKeyBody)
                ELSE LoadX509KeyPair(c.TLSCert, c.TLSKey)
        ca   == ClientCAPool(c.ClientCA)
    IN  IF NoTLSKey(c) THEN [err |-> "", tlsConfig |-> <<>>]
        ELSE IF (c.TLSCertBody # <<>>) # (c.TLSKeyBody # <<>>)
        THEN Fail("need both TLSCertBody and TLSKeyBody to use TLS")
        ELSE IF (c.TLSCert # "") # (c.TLSKey # "")
        THEN Fail("need both --cert and --key to use TLS")
        ELSE IF pair.err # "" THEN Fail(pair.err)
        ELSE IF c.MinTLSVersion \notin MinTLSVersions
        THEN Fail("invalid value for --min-tls-version")
        ELSE IF c.ClientCA = ""
        THEN [err |-> "",
              tlsConfig |-> <<TLSConfig(c.MinTLSVersion, pair.cert, <<>>,
                                        "NoClientCert")>>]
        ELSE IF ca.err # "" THEN Fail(ca.err)
        ELSE [err |-> "",
              tlsConfig |-> <<TLSConfig(c.MinTLSVersion, pair.cert, ca.pool,
                                        "RequireAndVerifyClientCert")>>]

\* filepath.IsAbs
IsAbs(addr) == Head(addr) \in AbsPaths

\* The network NewServer's loop resolves an address to
Network(addr) ==
    IF Head(addr) = "unix://" \/ IsAbs(addr) THEN "unix" ELSE "tcp"

\* strings.TrimPrefix(addr, prefix)
TrimPrefix(addr, prefix) == IF Head(addr) = prefix THEN Tail(addr) ELSE addr

\* A variant of the resolution that gives TLS to tls:// addresses only
ResolveByPrefixOnly(addr, n, tls) ==
    IF Network(addr) = "unix"
    THEN [network |-> "unix", addr |-> TrimPrefix(addr, "unix://"),
          tlsCfg |-> <<>>]
    ELSE IF Head(addr) = "tls://"
    THEN [network |-> "tcp", addr |-> TrimPrefix(addr, "tls://"),
          tlsCfg |-> tls]
    ELSE [network |-> "tcp", addr |-> addr, tlsCfg |-> <<>>]

\* The head of NewServer's loop body, for an address of a list of n
\* addresses on a server whose tlsConfig is tls: the network, the address
\* to bind and the TLS configuration of the instance
Resolve(addr, n, tls) ==
    IF Network(addr) = "unix"
    THEN [network |-> "unix", addr |-> TrimPrefix(addr, "unix://"),
          tlsCfg |-> <<>>]
    ELSE IF Head(addr) = "tls://" \/ (n = 1 /\ tls # <<>>)
    THEN [network |-> "tcp", addr |-> TrimPrefix(addr, "tls://"),
          tlsCfg |-> tls]
    ELSE [network |-> "tcp", addr |-> addr, tlsCfg |-> <<>>]

\* The address a listener is bound to, as NewServer resolves it
Bound(addr) == Resolve(addr, 0, <<>>).addr

\* The instance NewServer builds for an address it bound: a Unix instance
\* has the socket path as url, a TCP instance
\* http[s]://<bound address><base path>/
Instance(addr, n, tls, base) ==
    LET r == Resolve(addr, n, tls)
    IN  [url       |-> IF r.network = "unix" THEN r.addr
                       ELSE <<"http">>
                            \o (IF r.tlsCfg # <<>> THEN <<"s">> ELSE <<>>)
                            \o <<"://">> \o r.addr \o base \o <<"/">>,
         network   |-> r.network,
         listener  |-> r.addr,
         TLSConfig |-> r.tlsCfg]

\* net.Listen on an address of the list: it fails where the environment
\* refuses it (failAt) and on an address the process is listening on already
ListenFails(addrs, i, failAt, open) ==
    i = failAt \/ Bound(addrs[i]) \in open

\* NewServer's loop over the addresses of configuration c from the i-th on:
\* the instances appended, the listeners opened, and whether it returned an
\* error
RECURSIVE Bind(_, _, _, _, _, _)
Bind(c, tls, i, failAt, insts, open) ==
    IF i > Len(c.ListenAddr)
    THEN [err |-> FALSE, instances |-> insts, listeners |-> open]
    ELSE IF ListenFails(c.ListenAddr, i, failAt, open)
    THEN [err |-> TRUE, instances |-> insts, listeners |-> open]
    ELSE Bind(c, tls, i + 1, failAt,
              Append(insts, Instance(c.ListenAddr[i], Len(c.ListenAddr), tls,
                                     c.BaseURL)),
              open \cup {Bound(c.ListenAddr[i])})

\* The socket files of a set of listeners
SocketFiles(open) == {l \in open : Head(l) \in AbsPaths}

\* The servers the model serves requests on: every authentication
\* configuration on a TCP and a Unix listener, the --rc-no-auth servers,
\* the allow-origins on every list of addresses, and a server under a base
\* path
Server(au, o, addrs) ==
    [auth |-> au, opt |-> o, cfg |-> [DefaultHTTPCfg EXCEPT !.ListenAddr = addrs]]

Servers ==
    {Server(au, Option(FALSE, ""), <<AddrA, AddrUnix>>) :
        au \in {<<>>} \cup {<<a>> : a \in AuthConfigs}}
    \cup {Server(au, Option(TRUE, ""), <<AddrA, AddrUnix>>) :
        au \in {<<>>, <<AuthConfig("", "", "test", "test")>>}}
    \cup {Server(au, Option(FALSE, o), <<AddrA, AddrB, AddrUnix>>) :
        au \in {<<>>, <<AuthConfig("", "", "test", "test")>>},
        o \in Origins \ {""}}
    \cup {Server(<<>>, Option(FALSE, ""), addrs) : addrs \in ListenAddrs}
    \cup {Server(<<>>, o, <<AddrA>>) : o \in GetOptions}

\* The base paths, the TLS settings and the address lists the listener
\* lifecycle is built with
BaseURLs ==
    {<<>>, <<"/">>, <<"/", "/">>, <<"rclone">>, <<"/", "rclone">>,
     <<"/", "rclone", "/">>, <<"rclone", "/">>,
     <<"/", "/", "rclone", "/", "/">>, <<"rclone", "/", "files">>}

TLSSettings ==
    {[TLSCert |-> cert, TLSKey |-> key, TLSCertBody |-> cb, TLSKeyBody |-> kb,
      ClientCA |-> ca, MinTLSVersion |-> v] :
        cert \in {"", "cert.pem"}, key \in {"", "key.pem", "other.pem"},
        cb \in {<<>>, <<"CERT">>}, kb \in {<<>>, <<"KEY">>},
        ca \in {"", "ca.pem", "empty.pem"}, v \in {"tls1.0", "tls1.3", "ssl3"}}

LifeAddrs ==
    {<<>>, <<AddrA>>, <<AddrTLS>>, <<AddrPath>>, <<AddrUnix>>, <<AddrA, AddrTLS>>,
     <<AddrTLS, AddrUnix, AddrA>>, <<AddrA, AddrA>>}

Config(addrs, base, t) ==
    [auth |-> <<>>, opt |-> Option(FALSE, ""),
     cfg |-> HTTPConfig(addrs, base, t.TLSCert, t.TLSKey, t.TLSCertBody,
                        t.TLSKeyBody, t.ClientCA, t.MinTLSVersion)]

NoTLS ==
    [TLSCert |-> "", TLSKey |-> "", TLSCertBody |-> <<>>, TLSKeyBody |-> <<>>,
     ClientCA |-> "", MinTLSVersion |-> "tls1.0"]

FileTLS == [NoTLS EXCEPT !.TLSCert = "cert.pem", !.TLSKey = "key.pem"]

Configs ==
    {Config(addrs, <<>>, t) : addrs \in {<<AddrA>>, <<AddrA, AddrTLS>>},
                              t \in TLSSettings}
    \cup {Config(addrs, base, t) : addrs \in LifeAddrs, base \in BaseURLs,
                                   t \in {NoTLS, FileTLS}}

----------------------------------------------------------------------------
(* Requests *)

\* The Authorization header: scheme "" is a missing header; b64 tells whether
\* the part after the scheme is valid base64; colon whether the decoded text
\* holds a colon (user:pass) or only a user.
Authorization(scheme, b64, colon, user, pass) ==
    [scheme |-> scheme, b64 |-> b64, colon |-> colon, user |-> user, pass |-> pass]

NoAuthorization == Authorization("", FALSE, FALSE, "", "")

BasicAuthorization(user, pass) == Authorization("Basic", TRUE, TRUE, user, pass)

Users == {"test", "md5", "custom"}

AuthHeaders ==
    {NoAuthorization,
     Authorization("Bearer", TRUE, TRUE, "test", "test"),
     Authorization("Basic", FALSE, FALSE, "", ""),
     Authorization("Basic", TRUE, FALSE, "test", "")}
    \cup {BasicAuthorization(u, u) : u \in Users}
    \cup {BasicAuthorization(u, "bad") : u \in Users}

\* One key=value pair of a query string, of a form body, or one member of
\* a JSON object
Pairs == [k : Keys, v : Vals]

\* What url.ParseQuery makes of a raw query or form body: the well-formed
\* pairs in their order, and whether every pair was well-formed
Parsed(ok, pairs) == [ok |-> ok, pairs |-> pairs, null |-> FALSE]

\* The JSON body null
JSONNull == [ok |-> TRUE, pairs |-> <<>>, null |-> TRUE]

Queries == {Parsed(TRUE, p) : p \in SeqsUpTo(Pairs, MaxQuery)}
           \cup {Parsed(FALSE, <<>>)}

Bodies == {Parsed(TRUE, p) : p \in SeqsUpTo(Pairs, MaxBody)}
          \cup {Parsed(FALSE, <<>>)}

UrlPaths == {<<"/">> \o p : p \in SeqsUpTo(PathChars, MaxPathLen)}

Request(unix, method, urlPath, contentType, query, authorization, body) ==
    [unix |-> unix, method |-> method, urlPath |-> urlPath,
     contentType |-> contentType, query |-> query,
     authorization |-> authorization, body |-> body]

\* Requests that differ in listener, method and credentials
AuthRequests ==
    {Request(u, m, p, "", Parsed(TRUE, <<>>), h, Parsed(TRUE, <<>>)) :
        u \in BOOLEAN, m \in Methods,
        p \in {<<"/", "a">>, <<"/", "b">>, <<"/", "a", "b">>, <<"/", "b", "a">>},
        h \in AuthHeaders}

\* POSTs that differ in content type, query and body
FormRequests ==
    {Request(FALSE, "POST", <<"/", "b">>, ct, q, NoAuthorization, b) :
        ct \in ContentTypes, q \in Queries, b \in Bodies}

\* POSTs that differ in path
PathRequests ==
    {Request(FALSE, "POST", p, ct, Parsed(TRUE, <<>>), NoAuthorization, Parsed(ok, <<>>)) :
        p \in UrlPaths, ct \in ContentTypes, ok \in BOOLEAN}

Requests == AuthRequests \cup FormRequests \cup PathRequests

\* POSTs to the commands b and a/b, with and without a JSON body, whose
\* query may use a reserved key
JobQueries ==
    {Parsed(TRUE, <<>>), Parsed(TRUE, <<[k |-> "k", v |-> "1"]>>),
     Parsed(TRUE, <<[k |-> "_request", v |-> "1"]>>)}

JobBodies ==
    {Parsed(TRUE, <<>>), Parsed(TRUE, <<[k |-> "k", v |-> "2"]>>), JSONNull}

JobRequests ==
    {Request(FALSE, "POST", p, "application/json", q, NoAuthorization, b) :
        p \in {<<"/", "b">>, <<"/", "a", "b">>}, q \in JobQueries, b \in JobBodies}
    \cup {Request(FALSE, "POST", p, "", q, NoAuthorization, Parsed(TRUE, <<>>)) :
        p \in {<<"/", "b">>, <<"/", "a", "b">>}, q \in JobQueries}

\* The URL path of a plugin asset
PluginPath == <<"/", "p", "/", "v", "/", "c">>

\* The URL paths of the GET and HEAD requests: the root, the listing, the
\* metrics, paths with and without a [fs] part, a file, and a plugin asset
GetPaths ==
    {PluginPath, <<"/">>, <<"/", "*">>, <<"/", "/", "*">>, <<"/", "metrics">>,
     <<"/", "[", "a", "]">>, <<"/", "[", "a", "]", "b">>,
     <<"/", "[", "]", "]", "b">>, <<"/", "[", "a">>,
     <<"/", "a", "[", "b", "]">>, <<"/", "a">>}

GetRequests ==
    {Request(FALSE, m, p, "", Parsed(TRUE, <<>>), h, Parsed(TRUE, <<>>)) :
        m \in {"GET", "HEAD"}, p \in GetPaths,
        h \in {NoAuthorization, BasicAuthorization("test", "test")}}

----------------------------------------------------------------------------
(* Responses *)

Body(kind, text, path, input, error, status, out) ==
    [kind |-> kind, text |-> text, path |-> path, input |-> input,
     error |-> error, status |-> status, out |-> out]

NoBody == Body("empty", "", <<>>, <<>>, <<>>, 0, <<>>)

TextBody(text) == Body("text", text, <<>>, <<>>, <<>>, 0, <<>>)

\* rc.Error: the error envelope {path, input, error, status}
ErrorBody(path, input, error, status) ==
    Body("error", "", path, input, error, status, <<>>)

\* rc.WriteJSON of a command's output
JSONBody(out) == Body("json", "", <<>>, <<>>, <<>>, 0, <<out>>)

Response(status, body, wwwAuthenticate) ==
    [status |-> status, body |-> body, wwwAuthenticate |-> wwwAuthenticate]

\* w.Header(): the headers the CORS middleware and handlePost add; <<>> is
\* an absent header, <<v>> a header of value v
Header(allowOrigin, requestMethod, allowHeaders, jobid) ==
    [AccessControlAllowOrigin   |-> allowOrigin,
     AccessControlRequestMethod |-> requestMethod,
     AccessControlAllowHeaders  |-> allowHeaders,
     XRcloneJobid               |-> jobid]

NoHeader == Header(<<>>, <<>>, <<>>, <<>>)

----------------------------------------------------------------------------
(* Request context *)

\* NewBaseContext: the context every request of a listener starts with
\* context.Background(): no key holds a value
Background ==
    [ContextAuthKey |-> <<>>, ContextUserKey |-> <<>>,
     ContextUnixSockKey |-> FALSE, ContentPublicURLKey |-> <<>>]

NewBaseContext(url, unix) ==
    IF unix
    THEN [Background EXCEPT !.ContextUnixSockKey = TRUE]
    ELSE [Background EXCEPT !.ContentPublicURLKey = <<url>>]

\* The context of a connection accepted on the listener of instance ii
BaseContext(ii) == NewBaseContext(ii.url, ii.network = "unix")

\* PublicURL: the empty string when the context holds none
PublicURL(ctx) ==
    IF ctx.ContentPublicURLKey = <<>> THEN <<>> ELSE ctx.ContentPublicURLKey[1]

\* A variant of IsAuthenticated that takes every request for authenticated
IsAuthenticatedAlways(ctx) == TRUE

\* IsAuthenticated, as lib/http2 writes it: both tests read ContextAuthKey
IsAuthenticated(ctx) ==
    \/ ctx.ContextAuthKey # <<>>
    \/ ctx.ContextAuthKey # <<>>

\* A variant of IsUnixSocket that takes no request for a Unix-socket one
IsUnixSocketNever(ctx) == FALSE

IsUnixSocket(ctx) == ctx.ContextUnixSockKey

----------------------------------------------------------------------------
(* Authentication middleware *)

\* parseAuthorization: (user, pass, ok) of the Authorization header
parseAuthorization(h) ==
    IF h.scheme = "Basic" /\ h.b64
    THEN [user |-> h.user,
          pass |-> IF h.colon THEN h.pass ELSE "",
          ok   |-> h.colon]
    ELSE [user |-> "", pass |-> "", ok |-> FALSE]

\* goauth.MD5Crypt(pass, salt, "$1$"): the salted hash kept as the secret
MD5Crypt(pass, salt) == <<"$1$", salt, pass>>

\* The secret provider of MiddlewareAuthBasic: <<>> is the empty secret
BasicSecret(a, u) ==
    IF a.BasicUser = u THEN MD5Crypt(a.BasicPass, a.Salt) ELSE <<>>

\* The secret provider of MiddlewareAuthHtpasswd, reading the test's
\* .htpasswd file, which holds the user md5 with the password md5
HtpasswdSecret(a, u) ==
    IF u = "md5" THEN MD5Crypt("md5", "htsalt") ELSE <<>>

Secret(strategy, a, u) ==
    IF strategy = "basic" THEN BasicSecret(a, u) ELSE HtpasswdSecret(a, u)

\* A variant of CheckAuth that compares the secret with the password
\* itself instead of its salted hash
CheckAuthUnhashed(strategy, a, h) ==
    LET p      == parseAuthorization(h)
        secret == Secret(strategy, a, p.user)
    IN  IF p.ok /\ secret # <<>> /\ secret = <<p.pass>>
        THEN p.user
        ELSE ""

\* LoggedBasicAuth.CheckAuth: the user name when the header holds
\* user:pass and pass hashes to the user's secret, "" otherwise
CheckAuth(strategy, a, h) ==
    LET p      == parseAuthorization(h)
        secret == Secret(strategy, a, p.user)
    IN  IF p.ok /\ secret # <<>> /\ secret = MD5Crypt(p.pass, secret[2])
        THEN p.user
        ELSE ""

\* goauth's RequireAuth: the 401 challenge
RequireAuth(realm) ==
    Response(StatusUnauthorized, TextBody("401 Unauthorized\n"),
             <<"Basic ", "realm=\"", realm, "\"">>)

\* What a middleware decided: next tells whether it called the wrapped
\* handler, ctx is the context it passed on, resp its own answer otherwise
Decision(next, ctx, response) == [next |-> next, ctx |-> ctx, resp |-> response]

NoResponse == Response(0, NoBody, <<>>)

\* basicAuth: the middleware of the static-credential and htpasswd strategies
basicAuth(strategy, a, r, ctx) ==
    LET username == CheckAuth(strategy, a, r.authorization)
    IN  IF username = ""
        THEN Decision(FALSE, ctx, RequireAuth(a.Realm))
        ELSE Decision(TRUE, [ctx EXCEPT !.ContextUserKey = <<username>>], NoResponse)

\* The verifier of TestMiddlewareAuth: a value for custom/custom, an error
\* for anything else
CustomAuthFn(user, pass) ==
    IF user = "custom" /\ pass = "custom"
    THEN [value |-> <<TRUE>>, err |-> FALSE]
    ELSE [value |-> <<>>, err |-> TRUE]

\* A variant of MiddlewareAuthCustom that hands the verifier whatever the
\* header parsed to, well-formed or not
MiddlewareAuthCustomUnparsed(a, r, ctx) ==
    LET p == parseAuthorization(r.authorization)
        v == CustomAuthFn(p.user, p.pass)
    IN  IF v.err THEN Decision(FALSE, ctx, RequireAuth(a.Realm))
        ELSE IF v.value # <<>>
             THEN Decision(TRUE, [ctx EXCEPT !.ContextAuthKey = v.value], NoResponse)
             ELSE Decision(TRUE, ctx, NoResponse)

\* MiddlewareAuthCustom
MiddlewareAuthCustom(a, r, ctx) ==
    LET p == parseAuthorization(r.authorization)
        v == CustomAuthFn(p.user, p.pass)
    IN  IF ~p.ok THEN Decision(TRUE, ctx, NoResponse)
        ELSE IF v.err THEN Decision(FALSE, ctx, RequireAuth(a.Realm))
        ELSE IF v.value # <<>>
             THEN Decision(TRUE, [ctx EXCEPT !.ContextAuthKey = v.value], NoResponse)
             ELSE Decision(TRUE, ctx, NoResponse)

Middleware(strategy, a, r, ctx) ==
    IF strategy = "custom"
    THEN MiddlewareAuthCustom(a, r, ctx)
    ELSE basicAuth(strategy, a, r, ctx)

\* A variant of initAuth that tries the static credential first
initAuthBasicFirst(au) ==
    IF au = <<>> THEN <<>>
    ELSE IF au[1].BasicUser # "" THEN <<"basic">>
    ELSE IF au[1].HtPasswd # "" THEN <<"htpasswd">>
    ELSE IF au[1].CustomAuthFn # "" THEN <<"custom">>
    ELSE <<>>

\* server.initAuth: the middlewares it installs on the router
initAuth(au) ==
    IF au = <<>> THEN <<>>
    ELSE IF au[1].CustomAuthFn # "" THEN <<"custom">>
    ELSE IF au[1].HtPasswd # "" THEN <<"htpasswd">>
    ELSE IF au[1].BasicUser # "" THEN <<"basic">>
    ELSE <<>>

----------------------------------------------------------------------------
(* Command dispatcher *)

\* The values url.Values holds for a key, in the order of the pairs
RECURSIVE ValuesFor(_, _)
ValuesFor(pairs, key) ==
    IF pairs = <<>> THEN <<>>
    ELSE (IF Head(pairs).k = key THEN <<Head(pairs).v>> ELSE <<>>)
         \o ValuesFor(Tail(pairs), key)

\* url.Values of a sequence of pairs
Values(pairs) == [key \in Keys \cup ReservedKeys |-> ValuesFor(pairs, key)]

\* r.URL.Query(): the well-formed pairs, malformed ones silently dropped
URLQuery(r) == Values(r.query.pairs)

\* A variant of ParseForm whose result is r.PostForm, the body's values alone
ParseFormPostOnly(r) ==
    [err  |-> ~r.body.ok \/ ~r.query.ok,
     Form |-> [key \in Keys \cup ReservedKeys |-> ValuesFor(r.body.pairs, key)]]

\* r.ParseForm() of a POST: r.Form holds the body's values followed by the
\* query's; err reports a malformed body or query
ParseForm(r) ==
    [err  |-> ~r.body.ok \/ ~r.query.ok,
     Form |-> [key \in Keys \cup ReservedKeys |->
                 ValuesFor(r.body.pairs, key) \o ValuesFor(r.query.pairs, key)]]

\* handlePost's loop over values: each key with its last value
ParamsOf(values) ==
    [key \in {k \in DOMAIN values : Len(values[k]) > 0} |-> Last(values[key])]

\* json.Decoder.Decode(&in): the members of the body's object are stored
\* into the map that in already is; the body null sets in to the nil map
DecodeJSON(params, r) ==
    LET obj == ParamsOf(Values(r.body.pairs))
    IN  [err   |-> ~r.body.ok,
         isNil |-> r.body.ok /\ r.body.null,
         in    |-> IF r.body.null THEN [key \in {} |-> ""]
                   ELSE [key \in DOMAIN params \cup DOMAIN obj |->
                           IF key \in DOMAIN obj THEN obj[key] ELSE params[key]]]

\* The command registry rc.Calls
Call(path, authRequired, needsRequest, needsResponse) ==
    [Path |-> path, AuthRequired |-> authRequired,
     NeedsRequest |-> needsRequest, NeedsResponse |-> needsResponse]

Calls ==
    {Call(<<"a">>, TRUE, FALSE, FALSE),
     Call(<<"b">>, FALSE, FALSE, FALSE),
     Call(<<"a", "b">>, FALSE, TRUE, TRUE)}

\* A variant of rc.Calls.Get that matches a registered path as a prefix
CallsGetPrefix(path) ==
    LET found == {c \in Calls : Len(c.Path) <= Len(path)
                                 /\ SubSeq(path, 1, Len(c.Path)) = c.Path}
    IN  IF found = {} THEN <<>> ELSE <<CHOOSE c \in found : TRUE>>

\* rc.Calls.Get: nil when no command is registered under path
CallsGet(path) ==
    LET found == {c \in Calls : c.Path = path}
    IN  IF found = {} THEN <<>> ELSE <<CHOOSE c \in found : TRUE>>

\* What the function of a call may do: return no output, an output, an
\* output that encoding/json cannot encode, or an error, or write to the
\* response it was given under _response and return no output
FnResults == {"nil", "out", "unencodable", "err", "stream"}

\* What decides jobs.NewJob's results: whether it creates a job handle and
\* what the function does
NewJobResult(handle, fnres) == [job |-> handle, fn |-> fnres]

NewJobResults == {NewJobResult(h, f) : h \in BOOLEAN, f \in FnResults}

\* jobs.NewJob: (job, out, err); a handle it creates has the next id of the
\* engine's counter
NewJob(counter, nj) ==
    [job |-> IF nj.job THEN <<[ID |-> counter + 1]>> ELSE <<>>,
     out |-> IF nj.fn = "out" THEN <<[key \in {"result"} |-> "done"]>>
             ELSE IF nj.fn = "unencodable" THEN <<[key \in {"result"} |-> "chan"]>>
             ELSE <<>>,
     err |-> nj.fn = "err"]

\* The decimal digits of n, most significant first: fmt's %d of an id
RECURSIVE FormatInt(_)
FormatInt(n) ==
    LET digit == <<"0", "1", "2", "3", "4", "5", "6", "7", "8", "9">>[(n % 10) + 1]
    IN  IF n < 10 THEN <<digit>> ELSE Append(FormatInt(n \div 10), digit)

\* A variant that sets the header only when the call succeeded
XRcloneJobidOnSuccess(res) ==
    IF res.job # <<>> /\ ~res.err THEN <<FormatInt(res.job[1].ID)>> ELSE <<>>

\* A variant that sends the last digit of the id
XRcloneJobidLastDigit(res) ==
    IF res.job # <<>> THEN <<<<Last(FormatInt(res.job[1].ID))>>>> ELSE <<>>

\* The x-rclone-jobid header handlePost adds for NewJob's results
XRcloneJobid(res) ==
    IF res.job # <<>> THEN <<FormatInt(res.job[1].ID)>> ELSE <<>>

\* writeError: the status and the error envelope
writeError(path, input, err, status) ==
    Response(status, ErrorBody(path, input, err, status), <<>>)

\* What lies outside the dispatcher for one request: the answers of
\* webgui's two plugin checks, and whether the connection fails while
\* rc.WriteJSON writes the output of the call
Outside(servePluginOK, servePluginWithReferrerOK, writeErr) ==
    [ServePluginOK |-> servePluginOK,
     ServePluginWithReferrerOK |-> servePluginWithReferrerOK,
     WriteErr |-> writeErr]

Quiet == Outside(FALSE, FALSE, FALSE)

\* The calls on the http.ResponseWriter. A Write before any status was
\* written calls WriteHeader(StatusOK) itself; a WriteHeader after the
\* status was written and a header added after it change nothing of what
\* the client receives.
HeaderAdd == [op |-> "Header().Add", status |-> 0, doc |-> "x-rclone-jobid"]

WriteHeader(status) == [op |-> "WriteHeader", status |-> status, doc |-> ""]

Write(doc) == [op |-> "Write", status |-> 0, doc |-> doc]

\* The calls of a handler that adds the job id header, if any, and then
\* writes one status and one body
Written(response, jobid) ==
    (IF jobid # <<>> THEN <<HeaderAdd>> ELSE <<>>)
    \o (IF response.status = 0 THEN <<>> ELSE <<WriteHeader(response.status)>>)
    \o (IF response.status = 0 \/ response.body = NoBody THEN <<>>
        ELSE <<Write(response.body.kind)>>)

\* What a handler did: the response the client receives, the input mapping
\* the handler built, the call it submitted to the job engine, the job id
\* header the client receives and the calls on the ResponseWriter
Handled(response, input, submitted, jobid) ==
    [resp |-> response, in |-> input, job |-> submitted, jobid |-> jobid,
     wlog |-> Written(response, jobid)]

\* The input mapping with the transport handles a call asks for
Inject(call, params) ==
    LET withReq == IF call.NeedsRequest
                   THEN [key \in DOMAIN params \cup {"_request"} |->
                           IF key = "_request" THEN "*http.Request" ELSE params[key]]
                   ELSE params
    IN  IF call.NeedsResponse
        THEN [key \in DOMAIN withReq \cup {"_response"} |->
                IF key = "_response" THEN "http.ResponseWriter" ELSE withReq[key]]
        ELSE withReq

\* A variant of inOrig that is taken after the injection
inOrigInjected(call, params) == Inject(call, params)

\* inOrig: the copy handlePost takes of the input mapping before it
\* injects what the call asks for
inOrig(call, params) == params

\* A handler that panics writes nothing: net/http recovers and closes the
\* connection
Panic(text) == Response(0, Body("panic", text, <<>>, <<>>, <<>>, 0, <<>>), <<>>)

\* RCServer.handlePost; counter is the job engine's id counter
handlePost(r, ctx, path, nj, counter, io) ==
    LET isForm == r.contentType = "application/x-www-form-urlencoded"
        isJSON == r.contentType = "application/json"
        form   == ParseForm(r)
        values == IF isForm THEN form.Form ELSE URLQuery(r)
        params == ParamsOf(values)
        json   == DecodeJSON(params, r)
        input  == IF isJSON THEN json.in ELSE params
        isNil  == isJSON /\ json.isNil
        call   == CallsGet(path)
    IN  IF isForm /\ form.err
        THEN Handled(writeError(path, <<>>,
                        <<"failed to parse form/URL parameters: ", "invalid">>,
                        StatusBadRequest), <<>>, <<>>, <<>>)
        ELSE IF isJSON /\ json.err
        THEN Handled(writeError(path, <<params>>,
                        <<"failed to read input JSON: ", "invalid">>,
                        StatusBadRequest), <<params>>, <<>>, <<>>)
        ELSE IF call = <<>>
        THEN Handled(writeError(path, <<input>>,
                        <<"couldn't find method ">> \o Quote(path),
                        StatusNotFound), <<input>>, <<>>, <<>>)
        ELSE IF call[1].AuthRequired /\ ~IsAuthenticated(ctx)
        THEN Handled(writeError(path, <<input>>,
                        <<"authentication must be set up on the rc server to use ">>
                        \o Quote(path)
                        \o <<" or the --rc-no-auth flag must be in use">>,
                        StatusForbidden), <<input>>, <<>>, <<>>)
        ELSE IF isNil /\ (call[1].NeedsRequest \/ call[1].NeedsResponse)
        THEN Handled(Panic("assignment to entry in nil map"), <<input>>, <<>>, <<>>)
        ELSE LET snapshot  == inOrig(call[1], input)
                 res       == NewJob(counter, nj)
                 submitted == [path |-> path, in |-> Inject(call[1], input),
                               handle |-> res.job]
                 jobid     == XRcloneJobid(res)
                 out       == IF res.out = <<>> THEN [key \in {} |-> ""]
                              ELSE res.out[1]
                 added     == IF jobid # <<>> THEN <<HeaderAdd>> ELSE <<>>
                 again     == IF io.WriteErr
                              THEN <<WriteHeader(StatusInternalServerError),
                                     Write("error")>>
                              ELSE <<>>
             IN  IF res.err
                 THEN Handled(writeError(path, <<snapshot>>, <<"job failed">>,
                                 StatusInternalServerError),
                              <<input>>, <<submitted>>, jobid)
                 ELSE IF nj.fn = "unencodable"
                 THEN Handled(writeError(path, <<snapshot>>,
                                 <<"json: unsupported type: ", "chan">>,
                                 StatusInternalServerError),
                              <<input>>, <<submitted>>, jobid)
                 ELSE IF nj.fn = "stream" /\ call[1].NeedsResponse
                 THEN [Handled(Response(StatusOK,
                                  Body("stream", "", <<>>, <<>>, <<>>, 0, <<out>>),
                                  <<>>),
                               <<input>>, <<submitted>>, <<>>)
                       EXCEPT !.wlog = <<WriteHeader(StatusOK), Write("stream")>>
                                       \o added \o <<Write("json")>> \o again]
                 ELSE IF io.WriteErr
                 THEN [Handled(Response(StatusOK,
                                  Body("truncated", "", <<>>, <<>>, <<>>, 0, <<out>>),
                                  <<>>),
                               <<input>>, <<submitted>>, jobid)
                       EXCEPT !.wlog = added
                                       \o <<WriteHeader(StatusOK), Write("json")>>
                                       \o again]
                 ELSE Handled(Response(StatusOK, JSONBody(out), <<>>),
                              <<input>>, <<submitted>>, jobid)

\* fsMatch.FindStringSubmatch: <<>> when the path does not start with a
\* bracketed part, else the shortest such part and the rest of the path
fsMatch(path) ==
    LET closing == {j \in 2..Len(path) : path[j] = "]"}
        j == CHOOSE k \in closing : \A l \in closing : k <= l
    IN  IF path # <<>> /\ path[1] = "[" /\ closing # {}
        THEN <<[fs |-> SubSeq(path, 2, j - 1),
                remote |-> SubSeq(path, j + 1, Len(path))]>>
        ELSE <<>>

\* What the handlers handleGet delegates to write: the remote listing or
\* object, the listing of the remotes, a file of the static root
Delegated(kind, path) ==
    Handled(Response(StatusOK, Body(kind, "", path, <<>>, <<>>, 0, <<>>), <<>>),
            <<>>, <<>>, <<>>)

\* promHandler.ServeHTTP: no statement assigns promHandler, the call
\* panics on the nil interface
promHandler == Handled(Panic("promHandler.ServeHTTP"), <<>>, <<>>, <<>>)

\* http.Error(w, http.StatusText(http.StatusNotFound), http.StatusNotFound)
NotFound ==
    Handled(Response(StatusNotFound, TextBody("Not Found\n"), <<>>),
            <<>>, <<>>, <<>>)

\* webgui.PluginsMatch.FindStringSubmatch: <<>> when the path is not
\* <plugin>/<version>/<rest>, else the three parts
PluginsMatch(path) ==
    IF /\ Len(path) >= 4
       /\ path[1] # "/" /\ path[2] = "/" /\ path[3] # "/" /\ path[4] = "/"
    THEN <<path[1], path[3], SubSeq(path, 5, Len(path))>>
    ELSE <<>>

\* RCServer.pluginsHandler as New sets it: the file server of the plugins
\* in the branch of the web GUI, which --rc-files keeps New out of; <<>>
\* for nil
pluginsHandler(o) ==
    IF o.Files = "" /\ o.WebUI THEN <<"webgui.PluginsPath">> ELSE <<>>

\* The case s.files != nil of handleGet: with the web GUI, a plugin asset
\* is served by webgui.ServePluginOK or forwarded to the plugins handler
\* under its rewritten path, and any path may be served by
\* webgui.ServePluginWithReferrerOK; else the file of the static root
serveFiles(o, path, io) ==
    LET pluginsMatchResult == PluginsMatch(path)
    IN  IF o.WebUI /\ pluginsMatchResult # <<>>
        THEN IF io.ServePluginOK THEN Delegated("proxy", path)
             ELSE IF pluginsHandler(o) = <<>>
             THEN Handled(Panic("s.pluginsHandler.ServeHTTP"), <<>>, <<>>, <<>>)
             ELSE Delegated("plugins",
                            <<"/", pluginsMatchResult[1], "/",
                              pluginsMatchResult[2], "/app/build/">>
                            \o pluginsMatchResult[3])
        ELSE IF o.WebUI /\ io.ServePluginWithReferrerOK
        THEN Delegated("referrer", path)
        ELSE Delegated("files", <<"/">> \o path)

\* A variant of handleGet that looks at the empty path before the static
\* root
handleGetRootFirst(o, path, io) ==
    LET fsMatchResult == fsMatch(path)
    IN  IF fsMatchResult # <<>> /\ o.Serve
        THEN Delegated("remote", fsMatchResult[1].remote)
        ELSE IF path = <<"metrics">> /\ o.EnableMetrics THEN promHandler
        ELSE IF path = <<"*">> /\ o.Serve THEN Delegated("root", <<>>)
        ELSE IF path = <<>> /\ o.Serve THEN Delegated("root", <<>>)
        ELSE IF Files(o) # <<>> THEN serveFiles(o, path, io)
        ELSE NotFound

\* RCServer.handleGet on a server with options o
handleGet(o, path, io) ==
    LET fsMatchResult == fsMatch(path)
    IN  IF fsMatchResult # <<>> /\ o.Serve
        THEN Delegated("remote", fsMatchResult[1].remote)
        ELSE IF path = <<"metrics">> /\ o.EnableMetrics THEN promHandler
        ELSE IF path = <<"*">> /\ o.Serve THEN Delegated("root", <<>>)
        ELSE IF Files(o) # <<>> THEN serveFiles(o, path, io)
        ELSE IF path = <<>> /\ o.Serve THEN Delegated("root", <<>>)
        ELSE NotFound

\* RCServer.handleOptions
handleOptions == Handled(Response(StatusOK, NoBody, <<>>), <<>>, <<>>, <<>>)

\* A variant of handler whose default case is the command invocation
handlerDefaultPost(r, ctx, nj, counter, io) ==
    LET path == TrimLeft(r.urlPath)
    IN  IF r.method = "OPTIONS" THEN handleOptions
        ELSE handlePost(r, ctx, path, nj, counter, io)

\* RCServer.handler: the method switch
handler(r, ctx, nj, counter, io) ==
    LET path == TrimLeft(r.urlPath)
    IN  IF r.method = "POST" THEN handlePost(r, ctx, path, nj, counter, io)
        ELSE IF r.method = "OPTIONS" THEN handleOptions
        ELSE IF r.method \in {"GET", "HEAD"} THEN handleGet(opt, path, io)
        ELSE Handled(writeError(path, <<>>,
                        <<"method ">> \o Quote(<<r.method>>) \o <<" not allowed">>,
                        StatusMethodNotAllowed), <<>>, <<>>, <<>>)


----------------------------------------------------------------------------
(* The CORS middleware *)

\* The function MiddlewareCORS hands to onlyOnceWarningAllowOrigin.Do: it
\* logs the warning for the wildcard origin
WarnAllowOrigin(allowOrigin) == allowOrigin = "*"

\* A variant of doSlow that does not test done again under the mutex
DoRunsAlways(o) == TRUE

\* sync.Once's doSlow under its mutex: the function runs unless done is set
DoRuns(o) == ~o.done

\* The headers the CORS middleware adds to the response before it calls
\* the wrapped handler
MiddlewareCORS(allowOrigin, ctx, hdr) ==
    IF IsUnixSocket(ctx) THEN hdr
    ELSE [hdr EXCEPT
            !.AccessControlAllowOrigin =
                <<IF allowOrigin # "" THEN <<allowOrigin>> ELSE PublicURL(ctx)>>,
            !.AccessControlRequestMethod = <<"POST, OPTIONS, GET, HEAD">>,
            !.AccessControlAllowHeaders = <<"authorization, Content-Type">>]

----------------------------------------------------------------------------
(* The router: the installed middlewares around the mounted handler *)

\* The decision of the chain of middlewares ms on request r, and the
\* headers the chain added to the response
RECURSIVE Chain(_, _, _, _, _, _)
Chain(ms, a, o, r, ctx, hdr) ==
    IF ms = <<>>
    THEN [next |-> TRUE, ctx |-> ctx, resp |-> NoResponse, header |-> hdr]
    ELSE IF Head(ms) = "cors"
    THEN Chain(Tail(ms), a, o, r, ctx,
               MiddlewareCORS(o.AccessControlAllowOrigin, ctx, hdr))
    ELSE LET d == Middleware(Head(ms), a, r, ctx)
         IN  IF d.next THEN Chain(Tail(ms), a, o, r, d.ctx, hdr)
             ELSE [next |-> FALSE, ctx |-> d.ctx, resp |-> d.resp, header |-> hdr]

----------------------------------------------------------------------------
(* Actions *)

Idle == [pc |-> "idle", allowOrigin |-> ""]

Init ==
    /\ pc = "new"
    /\ auth = <<>>
    /\ opt = Option(FALSE, "")
    /\ arg = <<>>
    /\ cfg = DefaultHTTPCfg
    /\ tlsConfig = <<>>
    /\ srvErr = ""
    /\ instances = <<>>
    /\ listeners = {}
    /\ sockets = {}
    /\ mux = <<>>
    /\ once = [done |-> FALSE, m |-> 0]
    /\ warnings = 0
    /\ ctor = [g \in Goroutines |-> Idle]
    /\ built = <<>>
    /\ jobID = JobsBefore
    /\ jobids = <<>>
    /\ conn = 0
    /\ req = <<>>
    /\ rctx = Background
    /\ in = <<>>
    /\ job = <<>>
    /\ hres = <<>>
    /\ whdr = NoHeader
    /\ wlog = <<>>
    /\ resp = NoResponse
    /\ wg = 0
    /\ serving = FALSE
    /\ loops = <<>>
    /\ stopped = <<>>
    /\ sd = [pc |-> "idle", i |-> 0, failed |-> FALSE]
    /\ waiter = "idle"
    /\ urls = <<>>
    /\ file = <<>>
    /\ flagset = <<>>
    /\ target = <<>>

\* NewServer with WithAuth(c.auth) and WithConfig(c.cfg), then
\* rcserver2.New with the options c.opt: the base path, the
\* authentication middleware, the TLS material, one listener per address,
\* and the CORS middleware in front of the dispatcher. failAt is the
\* address the environment refuses to bind, 0 for none.
NewServerWith(c, failAt) ==
    LET base == BaseURL(c.cfg.BaseURL)
        conf == [c.cfg EXCEPT !.BaseURL = base]
        t    == initTLS(conf)
        b    == Bind(conf, t.tlsConfig, 1, failAt, <<>>, listeners)
        o    == c.opt.AccessControlAllowOrigin
    IN  /\ pc = "new"
        /\ \A g \in Goroutines : ctor[g].pc = "idle"
        /\ arg' = <<c>>
        /\ auth' = c.auth
        /\ cfg' = conf
        /\ tlsConfig' = t.tlsConfig
        /\ IF t.err # ""
           THEN /\ pc' = "failed"
                /\ srvErr' = t.err
                /\ mux' = (IF base # <<>> THEN <<"strip">> ELSE <<>>)
                          \o initAuth(c.auth)
                /\ UNCHANGED <<opt, instances, listeners, sockets, cw, loops,
                               stopped>>
           ELSE /\ listeners' = b.listeners
                /\ sockets' = sockets \cup SocketFiles(b.listeners)
                /\ instances' = b.instances
                /\ loops' = [i \in DOMAIN b.instances |-> "none"]
                /\ stopped' = [i \in DOMAIN b.instances |-> FALSE]
                /\ IF b.err
                   THEN /\ pc' = "failed"
                        /\ srvErr' = "listen: address already in use"
                        /\ mux' = (IF base # <<>> THEN <<"strip">> ELSE <<>>)
                                  \o initAuth(c.auth)
                        /\ UNCHANGED <<opt, cw>>
                   ELSE /\ pc' = "ready"
                        /\ srvErr' = ""
                        /\ opt' = New(c.opt)
                        /\ mux' = (IF base # <<>> THEN <<"strip">> ELSE <<>>)
                                  \o initAuth(c.auth) \o <<"cors">>
                        /\ warnings' = IF DoRuns(once) /\ WarnAllowOrigin(o)
                                       THEN warnings + 1 ELSE warnings
                        /\ once' = [once EXCEPT !.done = TRUE]
                        /\ built' = Append(built, o)
                        /\ UNCHANGED ctor
        /\ UNCHANGED <<jobID, jobids, rq, wg, serving, sd, waiter, urls, ov>>

\* The servers that serve requests
NewServer == \E c \in Servers : \E failAt \in 0..Len(c.cfg.ListenAddr) :
    NewServerWith(c, failAt)

\* What arrives at the server: a request, what the job engine will do
\* with its call, and what lies outside the dispatcher. Every request with
\* a call that returns an output without a job handle; the POSTs to the
\* commands with every result, and with a connection that fails under the
\* output; the GETs of the plugin asset, of a file and of the root with
\* every answer of the plugin checks.
Arrivals ==
    {<<r, NewJobResult(FALSE, "out"), Quiet>> : r \in Requests}
    \cup {<<r, nj, Quiet>> : r \in JobRequests, nj \in NewJobResults}
    \cup {<<r, NewJobResult(h, fn), Outside(FALSE, FALSE, TRUE)>> :
            r \in JobRequests, h \in BOOLEAN, fn \in {"out", "nil"}}
    \cup {<<r, NewJobResult(FALSE, "out"), Quiet>> : r \in GetRequests}
    \cup {<<r, NewJobResult(FALSE, "out"), Outside(ok, referrer, FALSE)>> :
            r \in {g \in GetRequests :
                        g.urlPath \in {PluginPath, <<"/">>, <<"/", "a">>}},
            ok \in BOOLEAN, referrer \in BOOLEAN}

\* One request served by the router on the listener of an instance: the
\* middleware chain, then the dispatcher if the chain lets the request
\* through
ServeHTTP ==
    /\ pc = "ready"
    /\ \E x \in Arrivals, i \in DOMAIN instances :
        /\ (instances[i].network = "unix") = x[1].unix
        /\ \E d \in {Chain(mux, IF auth = <<>> THEN AuthConfig("", "", "", "")
                                ELSE auth[1],
                           opt, x[1], BaseContext(instances[i]), NoHeader)} :
            IF d.next
            THEN \E h \in {handler(x[1], d.ctx, x[2], jobID, x[3])} :
                    LET created  == h.job # <<>> /\ h.job[1].handle # <<>>
                        panicked == h.resp.body.kind = "panic"
                    IN  /\ created => jobID < JobsBefore + MaxJobs
                        /\ jobID' = IF created THEN jobID + 1 ELSE jobID
                        /\ rctx' = d.ctx
                        /\ in' = h.in
                        /\ job' = h.job
                        /\ hres' = <<h.resp>>
                        /\ resp' = h.resp
                        /\ whdr' = IF panicked THEN NoHeader
                                   ELSE [d.header EXCEPT !.XRcloneJobid = h.jobid]
                        /\ wlog' = h.wlog
                        /\ jobids' = IF h.jobid # <<>>
                                     THEN Append(jobids, h.jobid[1])
                                     ELSE jobids
            ELSE /\ rctx' = d.ctx
                 /\ in' = <<>>
                 /\ job' = <<>>
                 /\ hres' = <<>>
                 /\ resp' = d.resp
                 /\ whdr' = d.header
                 /\ wlog' = <<>>
                 /\ UNCHANGED <<jobID, jobids>>
        /\ conn' = i
        /\ req' = <<x[1]>>
    /\ pc' = "served"
    /\ UNCHANGED <<srv, cw, life, ov>>

\* The serve loop of the instance: the request is finished, its context and
\* response are gone, and the connection awaits the next request
serve ==
    /\ pc = "served"
    /\ pc' = "ready"
    /\ conn' = 0
    /\ req' = <<>>
    /\ rctx' = Background
    /\ in' = <<>>
    /\ job' = <<>>
    /\ hres' = <<>>
    /\ whdr' = NoHeader
    /\ wlog' = <<>>
    /\ resp' = NoResponse
    /\ UNCHANGED <<srv, cw, jobID, jobids, life, ov>>

Next == NewServer \/ ServeHTTP \/ serve

Spec == Init /\ [][Next]_vars

----------------------------------------------------------------------------
(* MiddlewareCORS constructed by several goroutines of one process *)

\* A goroutine calls MiddlewareCORS(allowOrigin)
CallCORS(g) ==
    /\ ctor[g].pc = "idle"
    /\ Len(built) + Cardinality({p \in Goroutines : ctor[p].pc # "idle"}) < MaxCORS
    /\ \E o \in Origins : ctor' = [ctor EXCEPT ![g] = [pc |-> "do", allowOrigin |-> o]]
    /\ UNCHANGED <<pc, srv, once, warnings, built, jobID, jobids, rq, life, ov>>

\* Once.Do: the fast path when done is set, doSlow otherwise
Do(g) ==
    /\ ctor[g].pc = "do"
    /\ ctor' = [ctor EXCEPT ![g].pc = IF once.done THEN "return" ELSE "lock"]
    /\ UNCHANGED <<pc, srv, once, warnings, built, jobID, jobids, rq, life, ov>>

\* doSlow: o.m.Lock()
Lock(g) ==
    /\ ctor[g].pc = "lock"
    /\ once.m = 0
    /\ once' = [once EXCEPT !.m = g]
    /\ ctor' = [ctor EXCEPT ![g].pc = "f"]
    /\ UNCHANGED <<pc, srv, warnings, built, jobID, jobids, rq, life, ov>>

\* doSlow under the mutex: the function runs and done is set, unless done
\* was set meanwhile; then o.m.Unlock()
Unlock(g) ==
    /\ ctor[g].pc = "f"
    /\ warnings' = IF DoRuns(once) /\ WarnAllowOrigin(ctor[g].allowOrigin)
                   THEN warnings + 1 ELSE warnings
    /\ once' = [done |-> TRUE, m |-> 0]
    /\ ctor' = [ctor EXCEPT ![g].pc = "return"]
    /\ UNCHANGED <<pc, srv, built, jobID, jobids, rq, life, ov>>

\* MiddlewareCORS returns the middleware
Return(g) ==
    /\ ctor[g].pc = "return"
    /\ built' = Append(built, ctor[g].allowOrigin)
    /\ ctor' = [ctor EXCEPT ![g] = Idle]
    /\ UNCHANGED <<pc, srv, once, warnings, jobID, jobids, rq, life, ov>>

NextCORS ==
    \E g \in Goroutines : CallCORS(g) \/ Do(g) \/ Lock(g) \/ Unlock(g) \/ Return(g)

SpecCORS == Init /\ [][NextCORS]_vars

----------------------------------------------------------------------------
(* The listener lifecycle: NewServer, Serve, Shutdown, Wait and URLs *)

\* NewServer on the configurations of the listener lifecycle
NewListeners == \E c \in Configs : \E failAt \in 0..Len(c.cfg.ListenAddr) :
    NewServerWith(c, failAt)

\* A variant of URLs that returns the url of every instance
URLsOfAll(insts) == [i \in DOMAIN insts |-> insts[i].url]

\* URLs: the urls of the instances whose listener is not a Unix socket, in
\* the order of the instances
RECURSIVE URLsOf(_)
URLsOf(insts) ==
    IF insts = <<>> THEN <<>>
    ELSE (IF Head(insts).network = "unix" THEN <<>> ELSE <<Head(insts).url>>)
         \o URLsOf(Tail(insts))

\* A variant of Shutdown's loop that gives up at the first error
ReturnOnError(i, failed, n) == IF failed THEN n + 1 ELSE i + 1

\* Shutdown's loop: the error of httpServer.Shutdown is logged and the
\* loop continues with the next of the n instances
NextInstance(i, failed, n) == i + 1

\* A variant of WaitGroup.Wait that never blocks
WaitNever(n) == TRUE

\* WaitGroup.Wait returns when the counter is zero
WaitReturns(n) == n = 0

\* A listener is closed: a Unix listener removes its socket file
Close(l) ==
    /\ listeners' = listeners \ {l}
    /\ sockets' = sockets \ {l}

\* The process is running a server
Running == pc = "ready"

\* Serve: one goroutine per instance, counted by the WaitGroup
Serve ==
    /\ Running
    /\ ~serving
    /\ serving' = TRUE
    /\ wg' = wg + Len(instances)
    /\ loops' = [i \in DOMAIN loops |-> "go"]
    /\ UNCHANGED <<pc, srv, cw, jobID, jobids, rq, stopped, sd, waiter, urls,
                   ov>>

\* instance.serve enters httpServer.Serve or ServeTLS: the listener is
\* tracked and accepts connections, unless the server is shutting down: then
\* the call closes the listener and returns ErrServerClosed
Accept(i) ==
    /\ Running
    /\ loops[i] = "go"
    /\ IF stopped[i]
       THEN /\ loops' = [loops EXCEPT ![i] = "closed"]
            /\ Close(instances[i].listener)
       ELSE /\ loops' = [loops EXCEPT ![i] = "serving"]
            /\ UNCHANGED <<listeners, sockets>>
    /\ UNCHANGED <<pc, auth, opt, arg, cfg, tlsConfig, srvErr, instances, mux,
                   cw, jobID, jobids, rq, wg, stopped, sd, waiter, urls,
                   serving, ov>>

\* httpServer.Serve returns ErrServerClosed after httpServer.Shutdown
\* closed the listener
Closed(i) ==
    /\ Running
    /\ loops[i] = "serving"
    /\ stopped[i]
    /\ loops' = [loops EXCEPT ![i] = "closed"]
    /\ UNCHANGED <<pc, srv, cw, jobID, jobids, rq, wg, stopped, sd, waiter,
                   urls, serving, ov>>

\* httpServer.Serve returns another error (accept failed): log.Fatalf
\* ends the process, no deferred call runs and no socket file is removed
Fatal(i) ==
    /\ Running
    /\ loops[i] = "serving"
    /\ ~stopped[i]
    /\ pc' = "exited"
    /\ listeners' = {}
    /\ UNCHANGED <<auth, opt, arg, cfg, tlsConfig, srvErr, instances, sockets,
                   mux, cw, jobID, jobids, rq, life, ov>>

\* instance.serve returns: the deferred wg.Done()
Done(i) ==
    /\ Running
    /\ loops[i] = "closed"
    /\ loops' = [loops EXCEPT ![i] = "done"]
    /\ wg' = wg - 1
    /\ UNCHANGED <<pc, srv, cw, jobID, jobids, rq, stopped, sd, waiter, urls,
                   serving, ov>>

\* Shutdown is called
Shutdown ==
    /\ Running
    /\ sd.pc = "idle"
    /\ sd' = [pc |-> "loop", i |-> 1, failed |-> FALSE]
    /\ UNCHANGED <<pc, srv, cw, jobID, jobids, rq, wg, loops, stopped, waiter,
                   urls, serving, ov>>

\* Shutdown's loop body: httpServer.Shutdown of the i-th instance closes
\* the listener the instance serves on and may return an error
ShutdownInstance ==
    /\ Running
    /\ sd.pc = "loop"
    /\ sd.i <= Len(instances)
    /\ stopped' = [stopped EXCEPT ![sd.i] = TRUE]
    /\ IF loops[sd.i] = "serving"
       THEN Close(instances[sd.i].listener)
       ELSE UNCHANGED <<listeners, sockets>>
    /\ \E failed \in BOOLEAN :
        sd' = [sd EXCEPT !.i = NextInstance(sd.i, failed, Len(instances)),
                         !.failed = @ \/ failed]
    /\ UNCHANGED <<pc, auth, opt, arg, cfg, tlsConfig, srvErr, instances, mux,
                   cw, jobID, jobids, rq, wg, loops, waiter, urls,
                   serving, ov>>

\* Shutdown after its loop: s.wg.Wait(), then return nil
ShutdownReturn ==
    /\ Running
    /\ sd.pc = "loop"
    /\ sd.i > Len(instances)
    /\ WaitReturns(wg)
    /\ sd' = [sd EXCEPT !.pc = "returned"]
    /\ UNCHANGED <<pc, srv, cw, jobID, jobids, rq, wg, loops, stopped, waiter,
                   urls, serving, ov>>

\* Wait is called
Wait ==
    /\ Running
    /\ waiter = "idle"
    /\ waiter' = "waiting"
    /\ UNCHANGED <<pc, srv, cw, jobID, jobids, rq, wg, loops, stopped, sd,
                   urls, serving, ov>>

\* Wait returns: s.wg.Wait()
WaitReturn ==
    /\ Running
    /\ waiter = "waiting"
    /\ WaitReturns(wg)
    /\ waiter' = "returned"
    /\ UNCHANGED <<pc, srv, cw, jobID, jobids, rq, wg, loops, stopped, sd,
                   urls, serving, ov>>

\* URLs is called
URLs ==
    /\ Running
    /\ urls' = URLsOf(instances)
    /\ urls' # urls
    /\ UNCHANGED <<pc, srv, cw, jobID, jobids, rq, wg, loops, stopped, sd,
                   waiter, serving, ov>>

NextLife ==
    \/ NewListeners
    \/ Serve
    \/ \E i \in DOMAIN instances : Accept(i) \/ Closed(i) \/ Fatal(i) \/ Done(i)
    \/ Shutdown \/ ShutdownInstance \/ ShutdownReturn
    \/ Wait \/ WaitReturn
    \/ URLs

SpecLife == Init /\ [][NextLife]_vars

----------------------------------------------------------------------------
(* Vocabulary of the properties *)

\* A response to a request was written
Served == pc = "served"

\* The active authentication strategy
Strategy == IF mux = <<>> \/ Head(mux) = "cors" THEN "none" ELSE mux[1]

\* The wrapped handler (the dispatcher) was invoked for the request
Invoked == hres # <<>>

\* A POST reached handlePost
Posted == Served /\ Invoked /\ req[1].method = "POST"

\* The command path of the request
Path == TrimLeft(req[1].urlPath)

\* handlePost gave up at its parsing steps
ParseFailed ==
    \/ req[1].contentType = "application/x-www-form-urlencoded"
       /\ (~req[1].body.ok \/ ~req[1].query.ok)
    \/ req[1].contentType = "application/json" /\ ~req[1].body.ok

\* handlePost matched a registration that has AuthRequired set
MatchedAuthRequired ==
    /\ Posted
    /\ ~ParseFailed
    /\ \E c \in Calls : c.Path = Path /\ c.AuthRequired

\* The context holds no identity, under either key
NoIdentity == rctx.ContextAuthKey = <<>> /\ rctx.ContextUserKey = <<>>

\* The credentials each strategy accepts, as configured
CorrectCredentials ==
    \/ Strategy = "none"
    \/ Strategy = "basic"
       /\ req[1].authorization = BasicAuthorization(auth[1].BasicUser, auth[1].BasicPass)
    \/ Strategy = "htpasswd" /\ req[1].authorization = BasicAuthorization("md5", "md5")
    \/ Strategy = "custom" /\ req[1].authorization = BasicAuthorization("custom", "custom")

\* The request carries user:pass credentials that the strategy rejects
WrongCredentials ==
    /\ req[1].authorization.scheme = "Basic"
    /\ req[1].authorization.b64
    /\ req[1].authorization.colon
    /\ ~CorrectCredentials

\* The response is the 401 challenge for the configured realm
Challenged ==
    /\ resp.status = StatusUnauthorized
    /\ Contains(resp.wwwAuthenticate, <<"realm=\"", auth[1].Realm, "\"">>)
    /\ ~Invoked

\* The client receives the wrapped handler's status and body
HandlerResponse ==
    /\ Invoked
    /\ resp.status = hres[1].status
    /\ resp.body = hres[1].body

----------------------------------------------------------------------------
(* Properties *)

C2_NoAuthDispatches ==
    (MatchedAuthRequired /\ NoIdentity /\ opt.NoAuth) =>
        /\ resp.status # StatusForbidden
        /\ job # <<>>

\* C3: a request that passed the static-credential or the htpasswd
\* middleware, its user name stored in the context, counts as
\* authenticated: its POST to an auth-required command is dispatched and
\* not answered 403.
C3_UserCountsAsAuthenticated ==
    (MatchedAuthRequired /\ Strategy \in {"basic", "htpasswd"}
        /\ rctx.ContextUserKey # <<>>) =>
        /\ resp.status # StatusForbidden
        /\ job # <<>>

\* C4: with an authentication strategy other than none, a request from a
\* Unix-socket listener without valid credentials is answered 401 and the
\* wrapped handler is not invoked.
C4_UnixIsAuthenticated ==
    (Served /\ Strategy # "none" /\ req[1].unix /\ ~CorrectCredentials) =>
        /\ resp.status = StatusUnauthorized
        /\ ~Invoked

\* C5: a request from a Unix-socket listener bypasses authentication: with
\* the static credential configured and no credentials sent, the response
\* is the wrapped handler's own.
C5_UnixBypassesAuth ==
    (Served /\ Strategy = "basic" /\ req[1].unix
        /\ req[1].authorization = NoAuthorization) =>
        HandlerResponse

\* C6: under the static-credential, htpasswd and custom strategies a
\* non-unix request with no Authorization header or with wrong credentials
\* is answered 401 with WWW-Authenticate holding realm="<realm>", and the
\* wrapped handler is not invoked.
C6_ChallengeOnFailure ==
    (Served /\ Strategy \in {"basic", "htpasswd", "custom"} /\ ~req[1].unix
        /\ (req[1].authorization = NoAuthorization \/ WrongCredentials)) =>
        Challenged

\* C7: under every strategy a request with correct credentials receives
\* the wrapped handler's status and body unchanged.
C7_CorrectCredentialsPass ==
    (Served /\ CorrectCredentials) => HandlerResponse

C7_Witness ==
    /\ Served
    /\ Strategy = "htpasswd"
    /\ CorrectCredentials
    /\ resp.status = StatusOK
    /\ resp.body.kind = "json"

\* C8: initAuth installs at most one authentication middleware, chosen by
\* the priority custom verifier > htpasswd file > static credential; with
\* none of them configured it installs nothing and every request reaches
\* the wrapped handler.
C8_OneStrategyByPriority ==
    pc # "new" =>
        LET custom   == auth # <<>> /\ auth[1].CustomAuthFn # ""
            htpasswd == auth # <<>> /\ auth[1].HtPasswd # ""
            basic    == auth # <<>> /\ auth[1].BasicUser # ""
        IN  /\ Cardinality({i \in DOMAIN mux : mux[i] # "cors"}) <= 1
            /\ (Strategy = "custom") = custom
            /\ (Strategy = "htpasswd") = (htpasswd /\ ~custom)
            /\ (Strategy = "basic") = (basic /\ ~htpasswd /\ ~custom)
            /\ (Strategy = "none") = (~basic /\ ~htpasswd /\ ~custom)
            /\ (Served /\ Strategy = "none") => Invoked

C8_Witness ==
    /\ Served
    /\ auth # <<>>
    /\ auth[1].CustomAuthFn = ""
    /\ auth[1].HtPasswd # ""
    /\ auth[1].BasicUser # ""
    /\ mux = <<"htpasswd", "cors">>

\* C9, as claimed: every POST to a path P without registered command is
\* answered 404 with an error envelope whose message contains P.
C9_Original ==
    (Served /\ req[1].method = "POST" /\ CallsGet(Path) = <<>>) =>
        /\ resp.status = StatusNotFound
        /\ resp.body.kind = "error"
        /\ Contains(resp.body.error, Path)

\* C9, amended: every POST to a path P without registered command that
\* reaches handlePost and passes its parsing steps is answered 404 with an
\* error envelope whose message contains P as %q quotes it, which is P
\* itself when P holds no character that %q escapes.
C9_NotFound ==
    (Posted /\ ~ParseFailed /\ ~\E c \in Calls : c.Path = Path) =>
        /\ resp.status = StatusNotFound
        /\ resp.body.kind = "error"
        /\ resp.body.status = StatusNotFound
        /\ Contains(resp.body.error, Quote(Path))
        /\ (\A i \in 1..Len(Path) : Path[i] \notin {"\"", "\\"}) =>
                Contains(resp.body.error, Path)

C9_Witness ==
    /\ Posted
    /\ Path = <<"b", "\"">>
    /\ resp.status = StatusNotFound
    /\ ~Contains(resp.body.error, Path)

\* C10, as claimed: for a form POST the input mapping is exactly the form
\* body's values; a query key is absent unless the body carries it, and
\* the body's value is used for a key present in both.
C10_Original ==
    (Posted /\ ~ParseFailed
        /\ req[1].contentType = "application/x-www-form-urlencoded") =>
        in = <<ParamsOf(Values(req[1].body.pairs))>>

\* C10, amended: for a form POST the input mapping holds every key of the
\* URL query and every key of the form body; a key of the query has the
\* query's last value, also when the body carries the key, and a key of
\* the body alone has the body's last value.
C10_FormMergesQuery ==
    (Posted /\ ~ParseFailed
        /\ req[1].contentType = "application/x-www-form-urlencoded") =>
        /\ in # <<>>
        /\ \A key \in Keys :
            LET q == {i \in 1..Len(req[1].query.pairs) : req[1].query.pairs[i].k = key}
                b == {i \in 1..Len(req[1].body.pairs) : req[1].body.pairs[i].k = key}
            IN  /\ (key \in DOMAIN in[1]) = (q # {} \/ b # {})
                /\ q # {} =>
                    in[1][key] = req[1].query.pairs[CHOOSE i \in q : \A j \in q : j <= i].v
                /\ (q = {} /\ b # {}) =>
                    in[1][key] = req[1].body.pairs[CHOOSE i \in b : \A j \in b : j <= i].v

C10_Witness ==
    /\ Posted
    /\ req[1].contentType = "application/x-www-form-urlencoded"
    /\ req[1].query.pairs = <<[k |-> "k", v |-> "1"]>>
    /\ req[1].body.pairs = <<[k |-> "k", v |-> "2"], [k |-> "c", v |-> "2"]>>
    /\ in = <<[key \in {"k", "c"} |-> IF key = "k" THEN "1" ELSE "2"]>>

----------------------------------------------------------------------------
(* Properties of the dispatcher's input mapping and job id header *)

\* strconv.Atoi of a sequence of decimal digits
RECURSIVE Atoi(_)
Atoi(s) ==
    LET value(d) == CHOOSE n \in 0..9 :
                        <<"0", "1", "2", "3", "4", "5", "6", "7", "8", "9">>[n + 1] = d
    IN  IF s = <<>> THEN 0 ELSE 10 * Atoi(SubSeq(s, 1, Len(s) - 1)) + value(Last(s))

\* The last value a sequence of pairs gives a key
LastValue(pairs, key) == Last(ValuesFor(pairs, key))

\* The keys of a sequence of pairs
KeysOf(pairs) == {pairs[i].k : i \in DOMAIN pairs}

\* The job engine returned a job handle for the POST
HandleReturned == Posted /\ job # <<>> /\ job[1].handle # <<>>

\* C11: for a POST with Content-Type application/json the input mapping
\* built for the command holds every URL query key that the JSON body does
\* not carry, with its query value, and every JSON key with its JSON value.
C11_JSONMergesOverQuery ==
    (Posted /\ ~ParseFailed /\ req[1].contentType = "application/json") =>
        /\ in # <<>>
        /\ \A key \in KeysOf(req[1].body.pairs) :
            /\ key \in DOMAIN in[1]
            /\ in[1][key] = LastValue(req[1].body.pairs, key)
        /\ \A key \in KeysOf(req[1].query.pairs) \ KeysOf(req[1].body.pairs) :
            /\ key \in DOMAIN in[1]
            /\ in[1][key] = LastValue(req[1].query.pairs, key)

\* C12: every error envelope handlePost writes echoes as input the mapping
\* as it was before the injection; the request and response objects
\* injected under _request and _response are in no error body.
C12_ErrorEchoesSnapshot ==
    (Posted /\ resp.body.kind = "error") =>
        /\ resp.body.input = in
        /\ resp.body.input # <<>> =>
            \A key \in DOMAIN resp.body.input[1] :
                resp.body.input[1][key] \notin {"*http.Request", "http.ResponseWriter"}

C12_Witness ==
    /\ Posted
    /\ resp.status = StatusInternalServerError
    /\ resp.body.kind = "error"
    /\ job # <<>>
    /\ DOMAIN job[1].in = {"_request", "_response"}
    /\ job[1].in["_request"] = "*http.Request"
    /\ job[1].in["_response"] = "http.ResponseWriter"
    /\ resp.body.input # <<>>
    /\ resp.body.input[1] = [key \in {"_request"} |-> "1"]

\* C13: the response to a POST carries x-rclone-jobid exactly when the job
\* engine returned a job handle, whether the call succeeded or failed, and
\* the header is the handle's id.
C13_JobidHeader ==
    Served =>
        /\ (whdr.XRcloneJobid # <<>>) = HandleReturned
        /\ HandleReturned => Atoi(whdr.XRcloneJobid[1]) = job[1].handle[1].ID

C13_Witness ==
    /\ HandleReturned
    /\ resp.status = StatusInternalServerError
    /\ whdr.XRcloneJobid = <<<<"1", "0">>>>
    /\ job[1].handle[1].ID = 10

----------------------------------------------------------------------------
(* Properties of the method switch, of CORS and of the listeners *)

\* The methods handler has a case for
HandledMethods == {"POST", "OPTIONS", "GET", "HEAD"}

\* A response was written to the client
Answered == Served /\ resp.status # 0

\* The response carries none of the three CORS headers
NoCORSHeaders ==
    /\ whdr.AccessControlAllowOrigin = <<>>
    /\ whdr.AccessControlRequestMethod = <<>>
    /\ whdr.AccessControlAllowHeaders = <<>>

\* C15, as claimed: a request whose method is none of POST, OPTIONS, GET
\* and HEAD is answered 405 with a plain-text body, and no command is
\* dispatched for it.
C15_Original ==
    (Served /\ req[1].method \notin HandledMethods) =>
        /\ resp.status = StatusMethodNotAllowed
        /\ resp.body.kind = "text"
        /\ job = <<>>

\* C15, amended: a request whose method is none of POST, OPTIONS, GET and
\* HEAD and which the authentication middleware lets through is answered
\* 405 with an error envelope that holds the path, no input, status 405 and
\* a message quoting the method; no input mapping is built and no command
\* is dispatched for it.
C15_MethodNotAllowed ==
    (Served /\ Invoked /\ req[1].method \notin HandledMethods) =>
        /\ resp.status = StatusMethodNotAllowed
        /\ resp.body.kind = "error"
        /\ resp.body.status = StatusMethodNotAllowed
        /\ resp.body.path = Path
        /\ resp.body.input = <<>>
        /\ Contains(resp.body.error, Quote(<<req[1].method>>))
        /\ in = <<>>
        /\ job = <<>>

C15_Witness ==
    /\ Served
    /\ Invoked
    /\ Strategy = "basic"
    /\ req[1].method = "DELETE"
    /\ Path = <<"a">>
    /\ resp.status = StatusMethodNotAllowed
    /\ resp.body.kind = "error"

\* C16: an OPTIONS request to any path is answered 200 with an empty body,
\* also a preflight request without credentials on a server with an
\* authentication strategy.
C16_OptionsPreflight ==
    (Served /\ req[1].method = "OPTIONS") =>
        /\ resp.status = StatusOK
        /\ resp.body = NoBody

\* C17: the response to a request received on a Unix-socket listener
\* carries none of Access-Control-Allow-Origin,
\* Access-Control-Request-Method and Access-Control-Allow-Headers,
\* whatever allow-origin is configured.
C17_NoCORSOnUnix ==
    (Served /\ instances[conn].network = "unix") => NoCORSHeaders

C17_Witness ==
    /\ Served
    /\ instances[conn].network = "unix"
    /\ opt.AccessControlAllowOrigin = "*"
    /\ Invoked
    /\ resp.status = StatusOK
    /\ NoCORSHeaders

\* C18: the response to a non-unix request carries
\* Access-Control-Allow-Origin equal to the configured allow-origin when
\* that is not empty and to the public URL of the instance the request
\* arrived on otherwise, and the methods and headers CORS headers.
C18_AllowOrigin ==
    (Answered /\ instances[conn].network # "unix") =>
        /\ whdr.AccessControlAllowOrigin =
            <<IF opt.AccessControlAllowOrigin # ""
              THEN <<opt.AccessControlAllowOrigin>>
              ELSE instances[conn].url>>
        /\ whdr.AccessControlRequestMethod # <<>>
        /\ whdr.AccessControlAllowHeaders # <<>>

\* C19: however many CORS middlewares the goroutines of the process
\* construct, the wildcard-origin warning is logged at most once.
C19_WarnOnce == warnings <= 1

C19_Witness ==
    /\ warnings = 1
    /\ Cardinality({i \in DOMAIN built : built[i] = "*"}) >= 2

\* C20: when NewServer fails to bind an address of the list, no listener
\* it bound for an earlier address remains open.
C20_NoListenerLeft == pc = "failed" => listeners = {}

----------------------------------------------------------------------------
(* Properties of the TLS material, the addresses and the lifecycle *)

\* NewServer returned a server
Constructed == arg # <<>> /\ srvErr = ""

\* The address the i-th instance was built from
AddrOf(i) == cfg.ListenAddr[i]

\* The address names a Unix socket
UnixAddr(a) == Head(a) = "unix://" \/ Head(a) \in AbsPaths

\* The address without its unix:// or tls:// prefix
Stripped(a) == IF Head(a) \in {"unix://", "tls://"} THEN Tail(a) ELSE a

\* The url starts with https://
IsHTTPS(u) == Len(u) >= 3 /\ SubSeq(u, 1, 3) = <<"http", "s", "://">>

\* No TLS key, neither a file nor a body, is configured
NoKeyMaterial == cfg.TLSKey = "" /\ cfg.TLSKeyBody = <<>>

\* C21: every instance built from an address with the tls:// prefix serves
\* TLS with the one TLS configuration of the server and has a url that
\* starts with https://; it never serves plaintext HTTP.
C21_TLSPrefixServesTLS ==
    Constructed =>
        \A i \in DOMAIN instances :
            Head(AddrOf(i)) = "tls://" =>
                /\ tlsConfig # <<>>
                /\ instances[i].TLSConfig = tlsConfig
                /\ IsHTTPS(instances[i].url)

\* C22: an absolute path or a unix:// address gives a Unix-socket instance
\* without TLS, also when TLS material is configured; otherwise a single
\* address on a server with TLS material gives a TLS instance; otherwise an
\* address without tls:// gives plain TCP; the listener is bound to the
\* address without its unix:// or tls:// prefix.
C22_AddressResolution ==
    Constructed =>
        \A i \in DOMAIN instances :
            LET a      == AddrOf(i)
                ii     == instances[i]
                single == Len(cfg.ListenAddr) = 1 /\ tlsConfig # <<>>
            IN  /\ UnixAddr(a) => ii.network = "unix" /\ ii.TLSConfig = <<>>
                /\ (~UnixAddr(a) /\ single) =>
                        ii.network = "tcp" /\ ii.TLSConfig = tlsConfig
                /\ (~UnixAddr(a) /\ ~single /\ Head(a) # "tls://") =>
                        ii.network = "tcp" /\ ii.TLSConfig = <<>>
                /\ ii.listener = Stripped(a)

C22_Witness ==
    /\ Constructed
    /\ tlsConfig # <<>>
    /\ cfg.ListenAddr = <<AddrA>>
    /\ instances[1].TLSConfig = tlsConfig
    /\ instances[1].listener = AddrA
    /\ IsHTTPS(instances[1].url)

\* C23: a server configured with a client CA and without TLS key material
\* is not constructed.
C23_ClientCANeedsTLS ==
    (arg # <<>> /\ cfg.ClientCA # "" /\ NoKeyMaterial) => srvErr # ""

\* C24: a server configured with exactly one of TLSCert and TLSKey, or with
\* exactly one of TLSCertBody and TLSKeyBody, is not constructed.
C24_CertAndKeyTogether ==
    (/\ arg # <<>>
     /\ \/ (cfg.TLSCert = "") # (cfg.TLSKey = "")
        \/ (cfg.TLSCertBody = <<>>) # (cfg.TLSKeyBody = <<>>)) => srvErr # ""

\* The serve loop of the i-th instance is not running: Serve did not start
\* it, or it returned
Exited(i) == loops[i] \in {"none", "done"}

\* The step in which Shutdown returns
ShutdownReturns == sd.pc # "returned" /\ sd'.pc = "returned"

\* C25: when Shutdown returns it has asked every instance to stop, also
\* after an error of an earlier instance, and every serve loop Serve
\* started has exited; when Wait returns every serve loop Serve started
\* has exited.
C25_ShutdownWaitsForAll ==
    [][/\ ShutdownReturns =>
            \A i \in DOMAIN instances : stopped[i] /\ Exited(i)
       /\ (waiter # "returned" /\ waiter' = "returned") =>
            \A i \in DOMAIN instances : Exited(i)]_vars

C25_Witness ==
    /\ sd.pc = "returned"
    /\ sd.failed
    /\ waiter = "returned"
    /\ Len(instances) >= 2
    /\ \A i \in DOMAIN instances : stopped[i] /\ loops[i] = "done"

\* C26: when Shutdown returns, the socket file of every Unix-socket
\* listener the server was serving is gone.
C26_SocketRemoved ==
    [][ShutdownReturns =>
        \A i \in DOMAIN instances :
            (instances[i].network = "unix" /\ loops[i] # "none") =>
                instances[i].listener \notin sockets']_vars

C26_Witness ==
    /\ sd.pc = "returned"
    /\ sockets = {}
    /\ \E i \in DOMAIN instances :
        instances[i].network = "unix" /\ loops[i] = "done"

\* The urls of the TCP instances from the i-th on, as the claim spells
\* them: http, s for a TLS instance, ://, the bound address, the base path
\* and a slash
RECURSIVE PublicURLs(_)
PublicURLs(i) ==
    IF i > Len(instances) THEN <<>>
    ELSE (IF UnixAddr(AddrOf(i)) THEN <<>>
          ELSE <<<<"http">>
                 \o (IF instances[i].TLSConfig # <<>> THEN <<"s">> ELSE <<>>)
                 \o <<"://">> \o Stripped(AddrOf(i)) \o cfg.BaseURL
                 \o <<"/">>>>)
         \o PublicURLs(i + 1)

\* C27: URLs returns, in the order of the addresses, one url per TCP
\* instance and none for a Unix-socket instance, each
\* http://<bound address><base path>/ with https for the instances that
\* serve TLS and only for them.
C27_URLs ==
    Constructed =>
        /\ URLsOf(instances) = PublicURLs(1)
        /\ urls \in {<<>>, PublicURLs(1)}

C27_Witness ==
    /\ Constructed
    /\ Len(instances) = 3
    /\ Len(urls) = 2
    /\ IsHTTPS(urls[1])
    /\ ~IsHTTPS(urls[2])
    /\ cfg.BaseURL # <<>>

\* C28: the base path the server keeps is empty or has one leading slash
\* and no trailing slash; normalising it again changes nothing; rclone,
\* /rclone and /rclone/ give the same base path; the strip-prefix
\* middleware is installed, first on the router, unless the given base path
\* holds nothing but slashes.
C28_BaseURLNormalised ==
    arg # <<>> =>
        LET given == arg[1].cfg.BaseURL
            base  == cfg.BaseURL
        IN  /\ base = <<>> \/ (/\ Len(base) >= 2
                               /\ base[1] = "/"
                               /\ base[2] # "/"
                               /\ base[Len(base)] # "/")
            /\ BaseURL(base) = base
            /\ given \in {<<"rclone">>, <<"/", "rclone">>, <<"/", "rclone", "/">>}
                    => base = <<"/", "rclone">>
            /\ (\E i \in DOMAIN mux : mux[i] = "strip")
                    = (\E i \in DOMAIN given : given[i] # "/")
            /\ \A i \in DOMAIN mux : mux[i] = "strip" => i = 1

C28_Witness ==
    /\ Constructed
    /\ arg[1].cfg.BaseURL = <<"/", "rclone", "/">>
    /\ cfg.BaseURL = <<"/", "rclone">>
    /\ mux = <<"strip", "cors">>

----------------------------------------------------------------------------
(* Properties of the GET and HEAD dispatch *)

\* handleGet was invoked for the request
Got == Served /\ Invoked /\ req[1].method \in {"GET", "HEAD"}

\* The path has the form [fs]remainder
HasFs == Path # <<>> /\ Path[1] = "[" /\ \E j \in 2..Len(Path) : Path[j] = "]"

\* A static file root is configured: --rc-files or the web GUI
StaticRoot == opt.Files # "" \/ opt.WebUI

\* A plugin asset was forwarded to the plugins handler
Forwarded ==
    /\ Got
    /\ \/ resp.body.kind = "plugins"
       \/ resp.body.text = "s.pluginsHandler.ServeHTTP"

\* The first rule of the GET protocol the request matches
Rule ==
    IF HasFs /\ opt.Serve THEN "remote"
    ELSE IF Path = <<"metrics">> /\ opt.EnableMetrics THEN "metrics"
    ELSE IF Path = <<"*">> /\ opt.Serve THEN "listing"
    ELSE IF StaticRoot THEN "static"
    ELSE IF Path = <<>> /\ opt.Serve THEN "root"
    ELSE "none"

\* C30: handleGet answers a GET or HEAD by the first rule that matches, in
\* the order [fs] path with remote serving, metrics, * listing, static file
\* root, empty path with remote serving; the empty path is served from the
\* static root when one is configured; when no rule matches the answer is a
\* plain-text 404.
C30_GetPriority ==
    Got =>
        /\ Rule = "remote"  => resp.status = StatusOK /\ resp.body.kind = "remote"
        /\ Rule = "metrics" => resp.body.text = "promHandler.ServeHTTP"
        /\ Rule \in {"listing", "root"} =>
                resp.status = StatusOK /\ resp.body.kind = "root"
        /\ Rule = "static" =>
                /\ resp.body.kind \in {"files", "referrer", "proxy", "plugins"}
                   \/ Forwarded
                /\ resp.body.kind \in {"referrer", "proxy", "plugins"}
                        => (opt.WebUI /\ resp.status = StatusOK)
                /\ resp.body.kind \in {"proxy", "plugins"} \/ Forwarded
                        => PluginsMatch(Path) # <<>>
                /\ resp.body.kind = "files" =>
                        /\ resp.status = StatusOK
                        /\ resp.body.path = <<"/">> \o Path
        /\ (StaticRoot /\ Path = <<>>) => resp.body.kind \in {"files", "referrer"}
        /\ Rule = "none" =>
                /\ resp.status = StatusNotFound
                /\ resp.body = TextBody("Not Found\n")

C30_Witness ==
    /\ Got
    /\ Path = <<>>
    /\ opt.Serve
    /\ opt.Files # ""
    /\ resp.body.kind = "files"
    /\ resp.body.path = <<"/">>

----------------------------------------------------------------------------
(* The config file overlay: NewConfig after the command line was parsed *)

\* A field of an options structure: its prefix tag or its flag tag (<<>>
\* for a missing tag), its type, and the fields of a nested structure
Field(name, prefix, flag, type, fields) ==
    [Name |-> name, prefix |-> prefix, flag |-> flag, Type |-> type,
     fields |-> fields]

\* The nested group of rc.Options, under the prefix rc-
HTTPOptionsFields ==
    <<Field("Network", <<>>, <<"net">>, "string", <<>>),
      Field("MaxHeaderBytes", <<>>, <<"max-header-bytes">>, "int", <<>>)>>

\* rc.Options: the group and one field of each type
OptionsFields ==
    <<Field("HTTPOptions", <<"rc-">>, <<>>, "httplib.Options", HTTPOptionsFields),
      Field("Serve", <<>>, <<"rc-", "serve">>, "bool", <<>>),
      Field("Files", <<>>, <<"rc-", "files">>, "string", <<>>),
      Field("JobExpireDuration", <<>>, <<"rc-", "job-expire-duration">>,
            "time.Duration", <<>>)>>

\* The flag of each field, the prefix of its group included
FlagOf ==
    [n \in {"Network", "MaxHeaderBytes", "Serve", "Files", "JobExpireDuration"} |->
        CASE n = "Network"           -> <<"rc-", "net">>
          [] n = "MaxHeaderBytes"    -> <<"rc-", "max-header-bytes">>
          [] n = "Serve"             -> <<"rc-", "serve">>
          [] n = "Files"             -> <<"rc-", "files">>
          [] n = "JobExpireDuration" -> <<"rc-", "job-expire-duration">>]

\* DefaultOpt: the hardcoded defaults; a duration counts seconds
DefaultOpt ==
    [n \in DOMAIN FlagOf |->
        CASE n = "Network"           -> <<"tcp">>
          [] n = "MaxHeaderBytes"    -> 4096
          [] n = "Serve"             -> FALSE
          [] n = "Files"             -> <<>>
          [] n = "JobExpireDuration" -> 60]

\* The value the command line gives a flag it sets
FlagValue ==
    [n \in DOMAIN FlagOf |->
        CASE n = "Network"           -> <<"tcp">>
          [] n = "MaxHeaderBytes"    -> 1024
          [] n = "Serve"             -> TRUE
          [] n = "Files"             -> <<"/tmp">>
          [] n = "JobExpireDuration" -> 10]

\* The values the DEFAULT section of rcd.conf may hold for a key
FileValues ==
    [n \in DOMAIN FlagOf |->
        CASE n = "Network"           -> {<<"unix">>}
          [] n = "MaxHeaderBytes"    -> {<<"8">>, <<"8", "k">>}
          [] n = "Serve"             -> {<<"true">>}
          [] n = "Files"             -> {<<"/srv">>}
          [] n = "JobExpireDuration" -> {<<"3", "0", "s">>, <<"3", "0">>}]

\* The DEFAULT sections: every choice of keys and values; a missing file is
\* the empty section
ConfigFiles ==
    UNION {{f \in [{FlagOf[n] : n \in ns} -> UNION {FileValues[n] : n \in ns}] :
                \A n \in ns : f[FlagOf[n]] \in FileValues[n]} :
           ns \in SUBSET DOMAIN FlagOf}

Digits == {"0", "1", "2", "3", "4", "5", "6", "7", "8", "9"}

\* strconv.Atoi: the number and whether the text is one
strconvAtoi(s) ==
    LET ok == s # <<>> /\ \A i \in DOMAIN s : s[i] \in Digits
    IN  [ok |-> ok, n |-> IF ok THEN Atoi(s) ELSE 0]

\* time.ParseDuration, in seconds: digits and the unit s or m
ParseDuration(s) ==
    LET ok == Len(s) >= 2 /\ s[Len(s)] \in {"s", "m"}
              /\ \A i \in 1..(Len(s) - 1) : s[i] \in Digits
    IN  [ok |-> ok,
         d  |-> IF ok THEN Atoi(SubSeq(s, 1, Len(s) - 1))
                           * (IF s[Len(s)] = "m" THEN 60 ELSE 1)
                ELSE 0]

\* The type switch of Config.init: the value of a field of the given type
\* after the file's value was assigned to it
SetField(type, old, value) ==
    CASE type = "string" -> value
      [] type = "int" -> IF strconvAtoi(value).ok THEN strconvAtoi(value).n ELSE old
      [] type = "time.Duration" ->
            IF ParseDuration(value).ok THEN ParseDuration(value).d ELSE old
      [] OTHER -> old

\* Config.init over the fields of a structure: values is the DEFAULT
\* section, flags the registered flags, t the structure
RECURSIVE init(_, _, _, _, _)
init(fields, prefix, values, flags, t) ==
    IF fields = <<>> \/ DOMAIN values = {} THEN t
    ELSE LET field == Head(fields)
             tag   == prefix \o field.flag
         IN  IF field.prefix # <<>>
             THEN init(Tail(fields), prefix, values, flags,
                       init(field.fields, field.prefix, values, flags, t))
             ELSE IF field.flag = <<>>
             THEN init(Tail(fields), prefix, values, flags, t)
             ELSE IF tag \notin DOMAIN values
             THEN init(Tail(fields), prefix, values, flags, t)
             ELSE IF tag \notin DOMAIN flags \/ flags[tag].Changed
             THEN init(Tail(fields), prefix, values, flags, t)
             ELSE init(Tail(fields), prefix, values, flags,
                       [t EXCEPT ![field.Name] =
                            SetField(field.Type, @, values[tag])])

\* The command line is parsed: the flags given are marked Changed and
\* write their fields; the flag of --rc-files may be one no package
\* registered
ParseFlags ==
    /\ pc = "new"
    /\ flagset = <<>>
    /\ \E given \in SUBSET DOMAIN FlagOf, registered \in {DOMAIN FlagOf, DOMAIN FlagOf \ {"Files"}} :
        /\ given \subseteq registered
        /\ flagset' = <<[f \in {FlagOf[n] : n \in registered} |->
                            [Changed |-> \E n \in given : FlagOf[n] = f]]>>
        /\ target' = <<[n \in DOMAIN FlagOf |->
                            IF n \in given THEN FlagValue[n] ELSE DefaultOpt[n]]>>
    /\ UNCHANGED <<pc, srv, cw, jobID, jobids, rq, life, file>>

\* NewConfig: Load reads rcd.conf, init overlays its DEFAULT section on
\* rcflags.Opt
NewConfig ==
    /\ pc = "new"
    /\ flagset # <<>>
    /\ file = <<>>
    /\ \E f \in ConfigFiles :
        /\ file' = <<f>>
        /\ target' = <<init(OptionsFields, <<>>, f, flagset[1], target[1])>>
    /\ UNCHANGED <<pc, srv, cw, jobID, jobids, rq, life, flagset>>

NextOverlay == ParseFlags \/ NewConfig

SpecOverlay == Init /\ [][NextOverlay]_vars

----------------------------------------------------------------------------
(* Properties of the overlay *)

\* The value of a field's type a text of the file denotes: <<>> when it
\* denotes none, else <<value>>
Denotes(n, text) ==
    CASE n \in {"Network", "Files"} -> <<text>>
      [] n = "MaxHeaderBytes" ->
            IF text # <<>> /\ \A i \in DOMAIN text : text[i] \in Digits
            THEN <<Atoi(text)>> ELSE <<>>
      [] n = "Serve" ->
            IF text \in {<<"true">>, <<"false">>} THEN <<text = <<"true">>>> ELSE <<>>
      [] n = "JobExpireDuration" ->
            IF text = <<"3", "0", "s">> THEN <<30>> ELSE <<>>

\* C29: after the overlay pass, every flag-tagged field of the options, the
\* fields of the nested group included, holds the value of its flag when
\* the flag was given on the command line; else the value the file holds
\* for the flag, when it holds one; else its hardcoded default.
C29_OverlayPrecedence ==
    file # <<>> =>
        \A n \in DOMAIN FlagOf :
            LET f == FlagOf[n]
            IN  f \in DOMAIN flagset[1] =>
                    IF flagset[1][f].Changed THEN target[1][n] = FlagValue[n]
                    ELSE IF f \in DOMAIN file[1]
                    THEN Denotes(n, file[1][f]) # <<>> =>
                            target[1][n] = Denotes(n, file[1][f])[1]
                    ELSE target[1][n] = DefaultOpt[n]

----------------------------------------------------------------------------
(* Properties of the middleware order, the warning, the metrics and the
   listeners after Shutdown *)

\* C31: the CORS middleware runs before the authentication middleware, so
\* the 401 challenge that answers a non-unix request carries the three CORS
\* headers.
C31_ChallengeCarriesCORS ==
    (Served /\ Challenged /\ instances[conn].network # "unix") =>
        /\ \A i, j \in DOMAIN mux :
                (mux[i] = "cors" /\ mux[j] = Strategy) => i < j
        /\ whdr.AccessControlAllowOrigin # <<>>
        /\ whdr.AccessControlRequestMethod # <<>>
        /\ whdr.AccessControlAllowHeaders # <<>>

\* The calls on the ResponseWriter that write a status: WriteHeader, and
\* the first Write when no status was written before it
StatusWrites == {i \in DOMAIN wlog : wlog[i].op = "WriteHeader"}

\* The calls that write a JSON document to the body
DocumentWrites ==
    {i \in DOMAIN wlog : wlog[i].op = "Write" /\ wlog[i].doc \in {"json", "error"}}

\* C32: when the job engine returned a job handle, x-rclone-jobid is added
\* to the headers of the response before anything is written to its body,
\* also by a command that writes to the response itself, and the client
\* receives the header.
C32_JobidBeforeBody ==
    HandleReturned =>
        /\ \E i \in DOMAIN wlog :
                /\ wlog[i] = HeaderAdd
                /\ \A j \in DOMAIN wlog : wlog[j].op = "Write" => i < j
        /\ whdr.XRcloneJobid # <<>>

\* C33: whenever a CORS middleware was constructed with the allow-origin
\* "*", the wildcard warning was logged, whatever allow-origins the earlier
\* constructions of the process used.
C33_WildcardWarned ==
    (\E i \in DOMAIN built : built[i] = "*") => warnings >= 1

\* C34: the custom-verifier middleware calls the verifier only for
\* well-formed Basic credentials, a request without them passing through
\* with no identity; when the verifier returns an error the wrapped handler
\* is not invoked and the answer is the 401 challenge; when it returns a
\* value, that value is the identity of the request, which counts as
\* authenticated: no command answers it 403.
C34_CustomVerifier ==
    (Served /\ Strategy = "custom") =>
        LET p == parseAuthorization(req[1].authorization)
            v == CustomAuthFn(p.user, p.pass)
        IN  /\ ~p.ok => (Invoked /\ NoIdentity)
            /\ (p.ok /\ v.err) => (~Invoked /\ Challenged)
            /\ (p.ok /\ ~v.err /\ v.value # <<>>) =>
                    /\ Invoked
                    /\ rctx.ContextAuthKey = v.value
                    /\ IsAuthenticated(rctx)
                    /\ resp.status # StatusForbidden

C34_Witness ==
    /\ Served
    /\ Strategy = "custom"
    /\ req[1].authorization = BasicAuthorization("custom", "custom")
    /\ MatchedAuthRequired
    /\ rctx.ContextAuthKey = <<TRUE>>
    /\ resp.status = StatusOK

\* C35: with metrics enabled, the GET of /metrics is delegated to a metrics
\* handler that exists: the call does not panic on a nil handler.
C35_MetricsHandlerBuilt ==
    (Got /\ Path = <<"metrics">> /\ opt.EnableMetrics) =>
        resp.body.kind # "panic"

\* C36: in every state in which the server is serving, Serve was called on
\* it, its list of instances is not empty.
C36_ServingHasInstances == (Running /\ serving) => instances # <<>>

\* C37: whenever handleGet forwards a plugin asset to the plugins handler,
\* the handler exists, also when both --rc-files and the web GUI are
\* configured.
C37_PluginsHandlerExists ==
    Forwarded => (pluginsHandler(opt) # <<>> /\ resp.body.kind = "plugins")

\* C38: for a POST, handlePost writes the status of the response at most
\* once and at most one JSON document to its body, also when writing the
\* output of the call fails.
C38_OneStatusOneDocument ==
    Posted =>
        /\ Cardinality(StatusWrites) <= 1
        /\ Cardinality(DocumentWrites) <= 1

\* C39: when Shutdown returns, every listener NewServer bound is closed,
\* also when Serve was never called.
C39_ShutdownClosesListeners ==
    [][ShutdownReturns =>
        \A i \in DOMAIN instances : instances[i].listener \notin listeners']_vars

----------------------------------------------------------------------------
(* Properties of the configuration NewServer is given *)

\* C40: after NewServer, the HTTPConfig it was given holds what it held
\* when NewServer was called, and so does the package default when no
\* configuration was given.
C40_ConfigUnchanged == arg # <<>> => cfg = arg[1].cfg

====
